---------------------------- MODULE Spec2Model ----------------------------
(***************************************************************************)
(* Model of nipart's link-event trigger evaluator                          *)
(* (src/src/daemon/event.rs) over the trigger model of                     *)
(* src/src/lib/nmstate/trigger.rs, and of the verify, diff and revert      *)
(* algorithms of src/src/lib/state (query_apply/inter_ifaces.rs,           *)
(* revert/iface.rs).                                                       *)
(*                                                                         *)
(* An Option<T> of the source is a sequence of length 0 (None) or 1        *)
(* (Some); an optional field whose values are enumerated in the model      *)
(* (trigger, IP configuration) has a value of its own for None             *)
(* (NoTrigger, IpUnset).                                                   *)
(***************************************************************************)
EXTENDS Naturals, Sequences, FiniteSets, TLC

VARIABLES
    saved,      \* conf_manager's saved desired interfaces (set of Interface)
    saved_in,   \* the saved state the last handler call queried (line 51)
    cur,        \* observed state the last handler call queried (set of CurIface)
    event_in,   \* the NipartLinkEvent as it was delivered to the last call
    event,      \* the same event after the SSID backfill of lines 56-68
    delta,      \* desired_state.ifaces built by the last call
    derived,    \* loop trace of the last call: [src, out] per matched saved iface
    applied,    \* whether the last call reached the merge of line 137
    apply_opt,  \* the NmstateApplyOption the last call merged with, if any
    result,     \* what the last call returned: "Ok" or "Err"
    handled,    \* number of link events handled so far
    queue,      \* link events sent by the monitor and not yet picked up
    pc,         \* where the commander stands in handle_link_event
    fires,      \* per call that applied: the triggers it fired
    v_merged,   \* MergedInterfaces::verify: the merged interfaces (self)
    v_ignored,  \* MergedInterfaces::verify: self.ignored_ifaces
    v_observed, \* MergedInterfaces::verify: the caller's observed Interfaces
    v_policy,   \* MergedInterfaces::verify: the backend's sanitization policy
    v_current,  \* MergedInterfaces::verify: the private copy it works on
    v_result,   \* MergedInterfaces::verify: what the call returned
    v_calls,    \* number of calls of MergedInterfaces::verify
    r_merged,   \* MergedInterface::generate_revert: the merged interface (self)
    r_revert,   \* MergedInterface::generate_revert: the Option it returned
    r_calls,    \* number of calls of MergedInterface::generate_revert
    d_merged,   \* MergedInterfaces::gen_diff: the merged interfaces (self)
    d_diff,     \* MergedInterfaces::gen_diff: the Interfaces it returned
    d_calls,    \* number of calls of MergedInterfaces::gen_diff
    m_call,     \* NipartMonitorManager: its calls, in the order they started
    m_mgr,      \* NipartMonitorManager: "none", "starting", "started", "ready"
    m_worker,   \* the monitor worker the commands are sent to
    a_call,     \* nispor_apply: its calls, in the order they started
    a_backend,  \* the backend: the requests and answers it has seen, in order
    p_before,   \* Interfaces: the collection before the last call on it
    p_ifaces,   \* Interfaces: the collection (self)
    p_last,     \* Interfaces: the method called last on the collection
    p_calls,    \* number of calls of update and remove_unknown_type_port
    n_merged,   \* MergedDnsState::verify: the merged DNS state (self)
    n_current,  \* MergedDnsState::verify: the current DnsState
    n_result,   \* MergedDnsState::verify: what the call returned
    n_calls     \* number of calls of MergedDnsState::verify

\* The variables of the link-event handler.
evars ==
    <<saved, saved_in, cur, event_in, event, delta, derived, applied,
      apply_opt, result, handled>>

\* The variables of the commander taking link events one step at a time.
qvars == <<queue, pc, fires>>

\* The variables of MergedInterfaces::verify.
vvars ==
    <<v_merged, v_ignored, v_observed, v_policy, v_current, v_result, v_calls>>

\* The variables of MergedInterface::generate_revert.
rvars == <<r_merged, r_revert, r_calls>>

\* The variables of MergedInterfaces::gen_diff.
dvars == <<d_merged, d_diff, d_calls>>

\* The variables of NipartMonitorManager and of its worker.
mvars ==
    <<m_call, m_mgr, m_worker>>

\* The variables of nispor_apply.
avars == <<a_call, a_backend>>

\* The variables of Interfaces::remove_unknown_type_port.
pvars == <<p_before, p_ifaces, p_last, p_calls>>

\* The variables of MergedDnsState::verify.
nvars == <<n_merged, n_current, n_result, n_calls>>

xvars == <<mvars, avars, pvars, nvars>>

vars == <<evars, qvars, vvars, rvars, dvars, xvars>>

---------------------------------------------------------------------------
(* Bounds *)

\* Number of link events handled in one behaviour.
MaxEvents == 2

---------------------------------------------------------------------------
(* Values *)

\* Option<T>: no value, or one.
None == << >>
Some(x) == <<x>>

\* The argument of a trigger that takes no SSID.
NoArg == ""
AnySsid == "*"
EventSsids == {"home", "work"}

IpUnset == "unset"
IpEnabled == "enabled"
IpDisabled == "disabled"

\* InterfaceTrigger; Option::None is NoTrigger.  The SSID of a Wi-Fi trigger
\* is a String.
Trigger(kind, ssid) == [kind |-> kind, ssid |-> ssid]
NoTrigger == Trigger("None", NoArg)
Never == Trigger("Never", NoArg)
Always == Trigger("Always", NoArg)
Carrier == Trigger("Carrier", NoArg)
WifiUp(ssid) == Trigger("WifiUp", ssid)
WifiDown(ssid) == Trigger("WifiDown", ssid)
WifiUpNot(ssid) == Trigger("WifiUpNot", ssid)

\* Interface: the base fields the handler reads or writes, and the Wi-Fi
\* section of a WifiCfg profile (an Option).
Interface(name, type, state, up, down, ip4, ip6, wifi) ==
    [name |-> name, iface_type |-> type, state |-> state,
     up_trigger |-> up, down_trigger |-> down,
     ipv4 |-> ip4, ipv6 |-> ip6, wifi |-> wifi]

\* The Wi-Fi section: the SSID, a String, and the optional base interface.
WifiConfig(ssid, base) == [ssid |-> ssid, base_iface |-> base]

\* BaseInterface::new(name, type): every optional field unset.
BaseInterfaceNew(name, type) ==
    Interface(name, type, "Up", NoTrigger, NoTrigger, IpUnset, IpUnset, None)

\* WifiCfgInterface::ssid() / WifiCfgInterface::parent(): an Option<&str>.
ssid(iface) ==
    IF iface.wifi = None THEN None ELSE Some(iface.wifi[1].ssid)
parent(iface) ==
    IF iface.wifi = None THEN None ELSE iface.wifi[1].base_iface

\* Interface::is_virtual(): no hardware behind the interface.
VirtualTypes == {"LinuxBridge", "WifiCfg"}
is_virtual(iface) == iface.iface_type \in VirtualTypes

\* InterfaceType::is_userspace(): the interface lives in the user-level
\* namespace of a collection.
UserspaceTypes == {"WifiCfg", "OvsBridge"}
is_userspace(iface) == iface.iface_type \in UserspaceTypes

\* The key of an interface inside an Interfaces collection: user_ifaces is
\* keyed by name and type, kernel_ifaces by name alone.
Key(iface) ==
    IF is_userspace(iface)
    THEN <<iface.name, iface.iface_type>>
    ELSE <<iface.name>>

\* The name and type of an interface.
NameType(iface) == <<iface.name, iface.iface_type>>

\* Interfaces::push: insert, replacing the entry of the same key.
Push(ifaces, iface) == {i \in ifaces : Key(i) # Key(iface)} \cup {iface}

\* NipartLinkEvent; ssid is an Option<String>.
LinkEvent(name, type, is_up, s) ==
    [iface_name |-> name, iface_type |-> type, is_up |-> is_up, ssid |-> s]

\* An observed interface: a WifiPhy reports the SSID it is associated to,
\* an Option<&str>.
CurIface(name, type, s) == [name |-> name, iface_type |-> type, ssid |-> s]

---------------------------------------------------------------------------
(* src/src/daemon/event.rs *)

\* is_trigger_matches with the WifiDown arm asking for some PHY, instead of
\* every PHY, not to report the SSID.
is_trigger_matches_any_phy(ev, trigger, saved_iface, cur_ifaces) ==
    CASE trigger.kind \in {"Never", "Always"} -> FALSE
      [] trigger.kind = "Carrier" ->
            /\ saved_iface.name = ev.iface_name
            /\ saved_iface.iface_type = ev.iface_type
      [] trigger.kind = "WifiUp" ->
            ev.is_up /\ ev.ssid = Some(trigger.ssid)
      [] trigger.kind = "WifiDown" ->
            \E i \in cur_ifaces :
                i.iface_type = "WifiPhy" /\ i.ssid # Some(trigger.ssid)
      [] trigger.kind = "WifiUpNot" ->
            ev.is_up /\ ev.ssid # Some(trigger.ssid)
      [] OTHER -> FALSE

\* is_trigger_matches with Never falling into the Carrier arm.
is_trigger_matches_never_as_carrier(ev, trigger, saved_iface, cur_ifaces) ==
    CASE trigger.kind = "Always" -> FALSE
      [] trigger.kind \in {"Never", "Carrier"} ->
            /\ saved_iface.name = ev.iface_name
            /\ saved_iface.iface_type = ev.iface_type
      [] trigger.kind = "WifiUp" ->
            ev.is_up /\ ev.ssid = Some(trigger.ssid)
      [] trigger.kind = "WifiDown" ->
            \A i \in cur_ifaces :
                i.iface_type = "WifiPhy" => i.ssid # Some(trigger.ssid)
      [] trigger.kind = "WifiUpNot" ->
            ev.is_up /\ ev.ssid # Some(trigger.ssid)
      [] OTHER -> FALSE

\* is_trigger_matches, lines 205-241
is_trigger_matches(ev, trigger, saved_iface, cur_ifaces) ==
    CASE trigger.kind \in {"Never", "Always"} -> FALSE
      [] trigger.kind = "Carrier" ->
            /\ saved_iface.name = ev.iface_name
            /\ saved_iface.iface_type = ev.iface_type
      [] trigger.kind = "WifiUp" ->
            ev.is_up /\ ev.ssid = Some(trigger.ssid)
      [] trigger.kind = "WifiDown" ->
            \A i \in cur_ifaces :
                i.iface_type = "WifiPhy" => i.ssid # Some(trigger.ssid)
      [] trigger.kind = "WifiUpNot" ->
            ev.is_up /\ ev.ssid # Some(trigger.ssid)
      [] OTHER -> FALSE

\* The WifiCfg arm without the parent test on a down-event.
wifi_cfg_matches_any_parent(ev, saved_iface) ==
    /\ saved_iface.iface_type = "WifiCfg"
    /\ ev.iface_type = "WifiPhy"
    /\ (ev.is_up => ev.ssid = ssid(saved_iface))

\* The WifiCfg arm of is_event_matches, lines 162-182
wifi_cfg_matches(ev, saved_iface) ==
    /\ saved_iface.iface_type = "WifiCfg"
    /\ ev.iface_type = "WifiPhy"
    /\ IF ev.is_up
       THEN ev.ssid = ssid(saved_iface)
       ELSE \/ parent(saved_iface) = None
            \/ parent(saved_iface) = Some(ev.iface_name)

\* The WifiPhy arm of is_event_matches, lines 184-189
wifi_phy_matches(ev, saved_iface) ==
    /\ saved_iface.iface_type = "WifiPhy"
    /\ ev.iface_type = "WifiPhy"
    /\ ev.iface_name = saved_iface.name

\* The trigger arm of is_event_matches, lines 191-202
trigger_arm_matches(ev, saved_iface, cur_ifaces) ==
    IF ev.is_up /\ saved_iface.up_trigger # NoTrigger
    THEN is_trigger_matches(ev, saved_iface.up_trigger, saved_iface, cur_ifaces)
    ELSE IF ~ev.is_up /\ saved_iface.down_trigger # NoTrigger
    THEN is_trigger_matches(ev, saved_iface.down_trigger, saved_iface,
                            cur_ifaces)
    ELSE FALSE

\* is_event_matches, lines 157-203
is_event_matches(ev, saved_iface, cur_ifaces) ==
    \/ wifi_cfg_matches(ev, saved_iface)
    \/ wifi_phy_matches(ev, saved_iface)
    \/ trigger_arm_matches(ev, saved_iface, cur_ifaces)

\* wifi_cfg_to_wifi_phy, lines 243-252: the saved profile's base record under
\* the PHY's identity; the Wi-Fi section is not part of the base record.
wifi_cfg_to_wifi_phy(iface_name, saved_iface) ==
    [saved_iface EXCEPT !.name = iface_name,
                        !.iface_type = "WifiPhy",
                        !.wifi = None]

\* SSID backfill, lines 56-68
backfill(ev, cur_ifaces) ==
    IF /\ ev.ssid = None
       /\ ev.iface_type = "WifiPhy"
       /\ \E c \in cur_ifaces :
            c.name = ev.iface_name /\ c.iface_type = ev.iface_type
    THEN [ev EXCEPT !.ssid =
            (CHOOSE c \in cur_ifaces :
                c.name = ev.iface_name /\ c.iface_type = ev.iface_type).ssid]
    ELSE ev

\* "Purge IP if WIFI PHY interface is down", lines 72-82
purge_entry(ev) ==
    [BaseInterfaceNew(ev.iface_name, ev.iface_type) EXCEPT
        !.state = "Up", !.ipv4 = IpDisabled, !.ipv6 = IpDisabled]

\* Loop body for an up-event, lines 86-97
desired_on_up(ev, iface) ==
    LET d == [iface EXCEPT !.state = "Up", !.up_trigger = NoTrigger]
    IN  IF ev.iface_type = "WifiPhy" /\ iface.iface_type = "WifiCfg"
        THEN wifi_cfg_to_wifi_phy(ev.iface_name, iface)
        ELSE d

\* state_on_down without the virtual / physical distinction.
state_on_down_never_absent(iface) ==
    IF iface.up_trigger.kind # "Carrier" /\ iface.iface_type # "WifiCfg"
    THEN "Down"
    ELSE "Up"

\* State of the delta entry on a down-event, lines 87 and 99-110
state_on_down(iface) ==
    IF iface.up_trigger.kind # "Carrier" /\ iface.iface_type # "WifiCfg"
    THEN IF is_virtual(iface) THEN "Absent" ELSE "Down"
    ELSE "Up"

\* Rebinding of an unparented WifiCfg profile, lines 117-129
rebind(ev, iface, d) ==
    IF iface.iface_type = "WifiCfg" /\ parent(iface) = None
       /\ iface.wifi # None
    THEN [d EXCEPT !.wifi = Some([iface.wifi[1] EXCEPT
                                    !.base_iface = Some(ev.iface_name)])]
    ELSE d

\* Loop body for a down-event, lines 86-87 and 98-130
desired_on_down(ev, iface) ==
    rebind(ev, iface,
           [iface EXCEPT !.state = state_on_down(iface),
                         !.down_trigger = NoTrigger,
                         !.ipv4 = IpDisabled,
                         !.ipv6 = IpDisabled])

\* Loop body, lines 85-132
desired_for(ev, iface) ==
    IF ev.is_up THEN desired_on_up(ev, iface) ELSE desired_on_down(ev, iface)

\* The loop of lines 84-133 over the saved interfaces in iteration order ord,
\* starting from the collection d.
RECURSIVE push_matches(_, _, _, _)
push_matches(ev, ord, cur_ifaces, d) ==
    IF ord = << >> THEN d
    ELSE push_matches(ev, Tail(ord), cur_ifaces,
            IF is_event_matches(ev, Head(ord), cur_ifaces)
            THEN Push(d, desired_for(ev, Head(ord)))
            ELSE d)

\* desired_state.ifaces at line 134
build_delta(ev, ord, cur_ifaces) ==
    push_matches(ev, ord, cur_ifaces,
        IF ~ev.is_up /\ ev.iface_type = "WifiPhy"
        THEN Push({}, purge_entry(ev))
        ELSE {})

\* The matched saved interfaces with the entry the loop built for each.
loop_trace(ev, saved_ifaces, cur_ifaces) ==
    {[src |-> i, out |-> desired_for(ev, i)] :
        i \in {s \in saved_ifaces : is_event_matches(ev, s, cur_ifaces)}}

\* apply_merged_state as far as the saved state goes: the applied desired
\* interfaces replace the saved ones of the same key.
save_applied(saved_ifaces, d) ==
    {s \in saved_ifaces : \A x \in d : Key(x) # Key(s)} \cup d

\* The test of line 134 made on every event, whatever the delta.
should_apply_always(d) == TRUE

\* The test of line 134: NetworkState::is_empty of a state that holds
\* interfaces only.
should_apply(d) == d # {}

\* NmstateApplyOption::new().no_verify(), line 140
NoVerify == "no_verify"
NoApplyOption == "none"

\* Every iteration order of a set of interfaces.
Orders(S) ==
    {o \in [1..Cardinality(S) -> S] : \A i, j \in 1..Cardinality(S) :
        i # j => o[i] # o[j]}

---------------------------------------------------------------------------
(* Inputs *)

UpTriggers ==
    {NoTrigger, Never, Always, Carrier,
     WifiUp("home"), WifiUp(AnySsid), WifiUpNot("home")}
DownTriggers ==
    {NoTrigger, Never, Always, Carrier, WifiDown("home")}

Identities ==
    {<<"eth0", "Ethernet", None>>,
     <<"br0", "LinuxBridge", None>>,
     <<"wlan0", "WifiPhy", None>>,
     <<"home-wifi", "WifiCfg", Some(WifiConfig("home", None))>>,
     <<"home-wifi", "WifiCfg", Some(WifiConfig("home", Some("wlan0")))>>,
     <<"home-wifi", "WifiCfg", Some(WifiConfig("home", Some("wlan1")))>>,
     <<"office-wifi", "WifiCfg", Some(WifiConfig("work", None))>>}

SavedIfaces ==
    {Interface(id[1], id[2], st, up, down, IpEnabled, IpEnabled, id[3]) :
        id \in Identities, st \in {"Up", "Down"},
        up \in UpTriggers, down \in DownTriggers}

\* A second saved interface beside the one under study.
Companions ==
    {Interface("wlan0", "WifiPhy", "Up", NoTrigger, NoTrigger,
               IpEnabled, IpEnabled, None),
     Interface("office-wifi", "WifiCfg", "Up", NoTrigger, NoTrigger,
               IpEnabled, IpEnabled, Some(WifiConfig("work", None)))}

\* The saved interfaces that are also tried beside a companion.
PairedIfaces ==
    {a \in SavedIfaces :
        /\ a.state = "Up"
        /\ a.up_trigger \in {NoTrigger, WifiUp("home")}
        /\ a.down_trigger \in {NoTrigger, WifiDown("home")}}

\* A saved kernel interface that has the name of the event's PHY under
\* another type.
SameNameIfaces ==
    {Interface("wlan0", "Ethernet", "Up", NoTrigger, down, IpEnabled,
               IpEnabled, None) : down \in {Carrier, WifiDown("home")}}

SavedStates ==
    {{a} : a \in SavedIfaces \cup SameNameIfaces}
    \cup UNION {{{a, b} : b \in {c \in Companions : Key(c) # Key(a)}} :
                    a \in PairedIfaces}

\* The SSIDs an event or an observed PHY may carry: none, or one of them.
OptionSsids == {None} \cup {Some(s) : s \in EventSsids}

CurStates ==
    {{CurIface("eth0", "Ethernet", None),
      CurIface("wlan0", "WifiPhy", s0),
      CurIface("wlan1", "WifiPhy", s1)} :
        s0 \in OptionSsids, s1 \in {Some("home"), None}}

Events ==
    {LinkEvent("eth0", "Ethernet", up, None) : up \in BOOLEAN}
    \cup {LinkEvent("wlan0", "WifiPhy", up, s) :
            up \in BOOLEAN, s \in OptionSsids}

\* No event: the value of the handler's event before it has one.
NoName == ""
NoEvent == LinkEvent(NoName, "Unknown", FALSE, None)

---------------------------------------------------------------------------
(* src/lib/state/query_apply/inter_ifaces.rs: MergedInterfaces::verify *)

\* An Interface as the merge, verify, diff and revert code reads it: identity,
\* state, one plain optional field (mtu), the port list of a controller and
\* the SR-IOV section of an Ethernet interface (None: no section), which
\* holds the names of the VF interfaces it asks for.
Iface(name, type, state, mtu, ports) ==
    [name |-> name, iface_type |-> type, state |-> state, mtu |-> mtu,
     ports |-> ports, sriov |-> None]

\* An Ethernet interface with an SR-IOV section asking for the VFs vf_names.
WithSriov(iface, vf_names) == [iface EXCEPT !.sriov = Some(vf_names)]

\* MergedInterface: the four views of one interface identity.
MergedInterface(desired, current, for_apply, for_verify) ==
    [desired |-> desired, current |-> current, for_apply |-> for_apply,
     for_verify |-> for_verify]

is_desired(m) == m.desired # None
is_absent(iface) == iface.state = "Absent"
is_up(iface) == iface.state = "Up"
is_down(iface) == iface.state = "Down"
is_controller(iface) == iface.iface_type \in {"LinuxBridge", "OvsBridge"}

\* Interfaces::get_iface: the interface of that name and type, if any.
get_iface(ifaces, name, type) ==
    {i \in ifaces : i.name = name /\ i.iface_type = type}

\* Interfaces::remove_ignored_ifaces: ignored lists names with their types.
remove_ignored_ifaces(ifaces, ignored) ==
    {i \in ifaces : \A k \in 1..Len(ignored) : ignored[k] # NameType(i)}

\* find_unknown_type_port without the else branch of lines 113-116: a port
\* that is not found is left alone.
find_unknown_type_port_found_only(iface, cur_ifaces) ==
    {port_name \in iface.ports :
        \E port_iface \in {i \in cur_ifaces : i.name = port_name} :
            port_iface.iface_type = "Unknown"}

\* find_unknown_type_port, lines 100-120: the ports of iface that are not
\* found in cur_ifaces under any type, or found with type Unknown.
find_unknown_type_port(iface, cur_ifaces) ==
    {port_name \in iface.ports :
        \A port_iface \in {i \in cur_ifaces : i.name = port_name} :
            port_iface.iface_type = "Unknown"}

\* Interfaces::remove_unknown_type_port, lines 68-98
remove_unknown_type_port(ifaces) ==
    {IF is_controller(i)
     THEN [i EXCEPT !.ports = i.ports \ find_unknown_type_port(i, ifaces)]
     ELSE i : i \in ifaces}

\* Interface::update, called at lines 51 and 55: the interface takes over the
\* state of the other one and every further field the other one carries; its
\* name and its type stay.
iface_update(self_iface, other_iface) ==
    [self_iface EXCEPT
        !.state = other_iface.state,
        !.mtu = IF other_iface.mtu # None THEN other_iface.mtu ELSE @,
        !.ports = IF is_controller(other_iface) THEN other_iface.ports ELSE @,
        !.sriov = IF other_iface.sriov # None THEN other_iface.sriov ELSE @]

\* Lines 21-25: the interface of self that other_iface is merged into, looked
\* up by name and type among the user-level interfaces and by name alone
\* among the kernel ones.
update_lookup(ifaces, other_iface) ==
    IF is_userspace(other_iface)
    THEN get_iface(ifaces, other_iface.name, other_iface.iface_type)
    ELSE {i \in ifaces : ~is_userspace(i) /\ i.name = other_iface.name}

\* Line 30-32: a Tun interface stands for an OvsInterface of a netdev
\* datapath.
is_tun_of_ovs_iface(self_iface, other_iface) ==
    /\ self_iface.iface_type = "Tun"
    /\ other_iface.iface_type = "OvsInterface"

\* Lines 37-51: the OvsInterface that takes the place of the Tun interface:
\* the clone of the other interface on the base of the Tun one, with the
\* state of the other one, then updated with the other one.
tun_to_ovs_iface(self_iface, other_iface) ==
    iface_update(
        [other_iface EXCEPT !.name = self_iface.name,
                            !.mtu = self_iface.mtu,
                            !.state = other_iface.state,
                            !.iface_type = "OvsInterface"],
        other_iface)

\* Lines 20-62: the interfaces collected in new_ifaces, those of other found
\* as a Tun interface and those not found.
update_new_ifaces(ifaces, other) ==
    {tun_to_ovs_iface(CHOOSE i \in update_lookup(ifaces, o) : TRUE, o) :
        o \in {x \in other :
                \E i \in update_lookup(ifaces, x) :
                    is_tun_of_ovs_iface(i, x)}}
    \cup {o \in other : update_lookup(ifaces, o) = {}}

\* Lines 26-56: the interfaces of self after the loop, those found and not
\* replaced updated in place.
update_in_place(ifaces, other) ==
    {IF \E o \in other :
            /\ i \in update_lookup(ifaces, o)
            /\ ~is_tun_of_ovs_iface(i, o)
     THEN iface_update(i, CHOOSE o \in other :
                            /\ i \in update_lookup(ifaces, o)
                            /\ ~is_tun_of_ovs_iface(i, o))
     ELSE i : i \in ifaces}

\* Lines 63-65: the interfaces of new_ifaces pushed one after the other.
RECURSIVE push_all(_, _)
push_all(ifaces, new_ifaces) ==
    IF new_ifaces = {} THEN ifaces
    ELSE LET new_iface == CHOOSE i \in new_ifaces : TRUE
         IN  push_all(Push(ifaces, new_iface), new_ifaces \ {new_iface})

\* Interfaces::update, lines 17-66
update(ifaces, other) ==
    push_all(update_in_place(ifaces, other), update_new_ifaces(ifaces, other))

\* The results of verify.
VerifyOk == [kind |-> "Ok", name |-> NoName, iface_type |-> "Unknown"]
VerificationError(iface) ==
    [kind |-> "VerificationError", name |-> iface.name,
     iface_type |-> iface.iface_type]

\* Interface::verify: the field-level comparison of an Up interface with the
\* observed one; a field the expectation does not carry is not compared.
iface_verify(iface, cur_iface) ==
    IF /\ iface.state = cur_iface.state
       /\ iface.mtu \in {None, cur_iface.mtu}
    THEN VerifyOk
    ELSE VerificationError(iface)

\* The Interface::Ethernet variant of line 239, which holds the interfaces of
\* type Ethernet and those of type Veth.
is_ethernet_iface(iface) == iface.iface_type \in {"Ethernet", "Veth"}

\* EthernetInterface::sriov_is_enabled, line 240: the interface has an SR-IOV
\* section that asks for at least one VF.
sriov_is_enabled(eth_iface) ==
    eth_iface.sriov # None /\ eth_iface.sriov[1] # {}

\* EthernetInterface::verify_sriov, line 241: every VF the section asks for
\* is an interface of the observed collection.
verify_sriov(eth_iface, current) ==
    IF \A vf_name \in eth_iface.sriov[1] :
            \E cur_iface \in current : cur_iface.name = vf_name
    THEN VerifyOk
    ELSE VerificationError(eth_iface)

\* Lines 237-244: an Up interface that is found is compared field by field,
\* and an Ethernet interface with SR-IOV enabled has its VFs verified next.
verify_found_up(iface, cur_iface, current) ==
    IF iface_verify(iface, cur_iface).kind # "Ok"
    THEN iface_verify(iface, cur_iface)
    ELSE IF is_ethernet_iface(iface) /\ sriov_is_enabled(iface)
    THEN verify_sriov(iface, current)
    ELSE VerifyOk

\* verify_desire_absent_but_found_in_current with the test of line 126 dropped.
verify_desire_absent_tolerated(des_iface, cur_iface) == VerifyOk

\* verify_desire_absent_but_found_in_current, lines 122-143
verify_desire_absent_but_found_in_current(des_iface, cur_iface) ==
    IF is_virtual(cur_iface)
    THEN VerificationError(des_iface)
    ELSE VerifyOk

\* The loop body of lines 219-255 with the test of line 245 dropped: every
\* interface that is not found in current is an error.
verify_iface_must_exist(m, current) ==
    IF m.for_verify = None THEN VerifyOk
    ELSE LET iface == m.for_verify[1]
             found == get_iface(current, iface.name, iface.iface_type)
         IN  IF is_absent(iface) \/ (is_virtual(iface) /\ is_down(iface))
             THEN IF found # {}
                  THEN verify_desire_absent_but_found_in_current(
                           iface, CHOOSE c \in found : TRUE)
                  ELSE VerifyOk
             ELSE IF found # {}
             THEN IF is_up(iface)
                  THEN verify_found_up(iface, CHOOSE c \in found : TRUE,
                                       current)
                  ELSE VerifyOk
             ELSE VerificationError(iface)

\* The loop body of lines 219-255: the verdict on one desired interface.
verify_iface(m, current) ==
    IF m.for_verify = None THEN VerifyOk
    ELSE LET iface == m.for_verify[1]
             found == get_iface(current, iface.name, iface.iface_type)
         IN  IF is_absent(iface) \/ (is_virtual(iface) /\ is_down(iface))
             THEN IF found # {}
                  THEN verify_desire_absent_but_found_in_current(
                           iface, CHOOSE c \in found : TRUE)
                  ELSE VerifyOk
             ELSE IF found # {}
             THEN IF is_up(iface)
                  THEN verify_found_up(iface, CHOOSE c \in found : TRUE,
                                       current)
                  ELSE VerifyOk
             ELSE IF is_up(iface)
             THEN VerificationError(iface)
             ELSE VerifyOk

\* The loop of lines 219-255: the first error in iteration order ord.
RECURSIVE verify_loop(_, _, _)
verify_loop(ord, k, current) ==
    IF k > Len(ord) THEN VerifyOk
    ELSE LET r == verify_iface(ord[k], current)
         IN  IF r.kind # "Ok" THEN r ELSE verify_loop(ord, k + 1, current)

\* The sanitization policy of the backend: the optional fields the backend
\* does not control, and whether extra OVS patch ports are tolerated.
Policy(uncontrolled, allow_extra_patch_ports) ==
    [uncontrolled |-> uncontrolled,
     allow_extra_patch_ports |-> allow_extra_patch_ports]

\* The policy under which nothing is rewritten.
NoPolicy == Policy({}, FALSE)

\* An OVS interface with a patch configuration.
is_ovs_patch_port(iface) == iface.iface_type = "OvsPatchPort"

\* The interfaces the loops of lines 209 and 219 visit, without the filter.
verify_visited_all(merged) == merged

\* The interfaces the loops of lines 209 and 219 visit.
verify_visited(merged) == {m \in merged : is_desired(m)}

\* process_allow_extra_ovs_patch_ports_for_verify, line 198: where the policy
\* tolerates them, the patch ports an observed OVS bridge holds beyond the
\* ports of its desired for_verify view are taken out of the observed bridge.
process_allow_extra_ovs_patch_ports_for_verify(merged, current, policy) ==
    IF ~policy.allow_extra_patch_ports THEN current
    ELSE {IF cur_iface.iface_type = "OvsBridge"
          THEN [cur_iface EXCEPT !.ports = cur_iface.ports \
                {port_name \in cur_iface.ports :
                    /\ \E port_iface \in current :
                        /\ port_iface.name = port_name
                        /\ is_ovs_patch_port(port_iface)
                    /\ \E m \in verify_visited(merged) :
                        /\ m.for_verify # None
                        /\ NameType(m.for_verify[1]) = NameType(cur_iface)
                        /\ port_name \notin m.for_verify[1].ports}]
          ELSE cur_iface : cur_iface \in current}

\* Interface::sanitize(false), lines 161, 205 and 215: the normalization of
\* the values of an interface that is done at apply time.  It drops no field,
\* and the values the model holds (a state, a number, a set of port names)
\* are in normal form, so the interface is returned as it is.  An error of
\* the call is dropped (.ok()).
sanitize(iface) == iface

\* The fields the policy says the backend does not control, taken out.
drop_uncontrolled(iface, policy) ==
    IF "mtu" \in policy.uncontrolled THEN [iface EXCEPT !.mtu = None] ELSE iface

\* Interface::sanitize_current_for_verify, line 206
sanitize_current_for_verify(iface, policy) == drop_uncontrolled(iface, policy)

\* Interface::sanitize_desired_for_verify, line 216
sanitize_desired_for_verify(iface, policy) == drop_uncontrolled(iface, policy)

\* The private copy of the observed interfaces verify works on, lines 195-207.
verify_current(merged, observed, ignored, policy) ==
    {sanitize_current_for_verify(sanitize(iface), policy) :
        iface \in process_allow_extra_ovs_patch_ports_for_verify(merged,
            remove_unknown_type_port(remove_ignored_ifaces(observed, ignored)),
            policy)}

\* The private copy of the merged interfaces verify works on, lines 194 and
\* 209-217: the for_verify view of every desired interface is sanitized.
verify_merged(merged, policy) ==
    {IF is_desired(m) /\ m.for_verify # None
     THEN [m EXCEPT !.for_verify =
            Some(sanitize_desired_for_verify(sanitize(m.for_verify[1]),
                                             policy))]
     ELSE m : m \in merged}

\* MergedInterfaces::verify, lines 190-257, visiting the desired interfaces of
\* its copy of the merged interfaces in order ord.
verify(ord, merged, observed, ignored, policy) ==
    verify_loop(ord, 1, verify_current(merged, observed, ignored, policy))

---------------------------------------------------------------------------
(* src/lib/state/revert/iface.rs: generate_revert *)

\* serde_json::to_value of an Interface: an object with the keys of the fields
\* the record carries; an unset optional field is not serialized.
to_value(iface) ==
    [k \in {"name", "type", "state"}
            \cup (IF iface.mtu = None THEN {} ELSE {"mtu"}) |->
        CASE k = "name" -> iface.name
          [] k = "type" -> iface.iface_type
          [] k = "state" -> iface.state
          [] k = "mtu" -> iface.mtu[1]]

\* serde_json::from_value into an Interface: a missing key is an unset field.
from_value(value) ==
    Iface(value["name"], value["type"], value["state"],
          IF "mtu" \in DOMAIN value THEN Some(value["mtu"]) ELSE None, {})

\* Interface::clone_name_type_only: the identity, in a record that has a state
\* as every interface has; for the skeleton of a revert it is the state of
\* the interface cloned.
clone_name_type_only(iface) ==
    Iface(iface.name, iface.iface_type, iface.state, None, {})

\* gen_revert_state: every key on which desired and current differ is given
\* its current value in revert.
gen_revert_state(desired, current, revert) ==
    LET changed == {k \in DOMAIN desired \cap DOMAIN current :
                        desired[k] # current[k]}
    IN  [k \in DOMAIN revert \cup changed |->
            IF k \in changed THEN current[k] ELSE revert[k]]

\* is_no_op, lines 56-65
is_no_op(revert_iface, desired_iface) ==
    to_value(revert_iface) = to_value(desired_iface)

\* An interface with context attached: what it was computed from, kept beside
\* its fields and not serialized.
WithContext(iface, context) ==
    [name |-> iface.name, iface_type |-> iface.iface_type,
     state |-> iface.state, mtu |-> iface.mtu, ports |-> iface.ports,
     sriov |-> iface.sriov, context |-> context]

\* Interface::include_revert_context, line 50: the revert record is given
\* the applied interface and the interface before the apply as its context.
include_revert_context(revert_iface, desired, pre_apply) ==
    WithContext(revert_iface, [desired |-> desired, current |-> pre_apply])

\* Interface::generate_revert without the early return of lines 37-39.
iface_generate_revert_by_fields(self, current) ==
    include_revert_context(
        from_value(gen_revert_state(to_value(self), to_value(current),
                                    to_value(clone_name_type_only(current)))),
        self, current)

\* Interface::generate_revert, lines 33-53
iface_generate_revert(self, current) ==
    IF is_absent(self) THEN current
    ELSE include_revert_context(
            from_value(gen_revert_state(to_value(self), to_value(current),
                                        to_value(clone_name_type_only(current)))),
            self, current)

\* MergedInterface::generate_revert with line 25 keeping the whole for_apply
\* view.
generate_revert_whole_view(m) ==
    IF m.for_apply = None THEN None
    ELSE IF m.current # None
    THEN LET revert_iface ==
                iface_generate_revert(m.for_apply[1], m.current[1])
         IN  IF ~is_no_op(revert_iface, m.for_apply[1])
             THEN Some(revert_iface) ELSE None
    ELSE Some([m.for_apply[1] EXCEPT !.state = "Absent"])

\* MergedInterface::generate_revert, lines 10-29
generate_revert(m) ==
    IF m.for_apply = None THEN None
    ELSE IF m.current # None
    THEN LET revert_iface ==
                iface_generate_revert(m.for_apply[1], m.current[1])
         IN  IF ~is_no_op(revert_iface, m.for_apply[1])
             THEN Some(revert_iface) ELSE None
    ELSE Some([clone_name_type_only(m.for_apply[1])
                   EXCEPT !.state = "Absent"])

\* merge_json_value: the keys of value overlaid on base.
merge_json_value(base, value) ==
    [k \in DOMAIN base \cup DOMAIN value |->
        IF k \in DOMAIN value THEN value[k] ELSE base[k]]

\* The backend applying interface des_iface where the interface is cur_iface
\* (None when it does not exist): an Absent interface is removed, a new one is
\* created as described, an existing one takes the fields the description
\* carries.
backend_apply(des_iface, cur_iface) ==
    IF is_absent(des_iface) THEN None
    ELSE IF cur_iface = None THEN Some(des_iface)
    ELSE Some(from_value(merge_json_value(to_value(cur_iface[1]),
                                          to_value(des_iface))))

---------------------------------------------------------------------------
(* src/lib/state/query_apply/inter_ifaces.rs: MergedInterfaces::gen_diff *)

\* gen_diff_json_value: the keys of desired whose value current does not
\* have, with their desired value; None when there is no such key.
gen_diff_json_value(desired, current) ==
    LET changed == {k \in DOMAIN desired :
                        k \notin DOMAIN current \/ desired[k] # current[k]}
    IN  IF changed = {} THEN None
        ELSE Some([k \in changed |-> desired[k]])

\* The interfaces gen_diff visits, line 152, without the is_desired test.
diff_visited_any(merged) == {m \in merged : m.desired # m.current}

\* The interfaces gen_diff visits, line 152.
diff_visited(merged) ==
    {m \in merged : is_desired(m) /\ m.desired # m.current}

\* Interface::include_diff_context, line 183: the diff entry is given the
\* current interface it was compared with as its context.
include_diff_context(new_iface, cur_iface) ==
    WithContext(new_iface, [current |-> cur_iface])

\* The loop body of lines 154-185 pushing the for_apply view at line 165.
diff_entries_for_apply(m) ==
    IF m.for_apply = None THEN {}
    ELSE IF m.current = None
    THEN {m.for_apply[1]}
    ELSE LET des_iface == m.for_apply[1]
             cur_iface == sanitize(m.current[1])
             diff_value == gen_diff_json_value(to_value(des_iface),
                                               to_value(cur_iface))
             new_iface == [clone_name_type_only(des_iface)
                               EXCEPT !.state = des_iface.state]
         IN  IF diff_value = None THEN {}
             ELSE {include_diff_context(
                        from_value(merge_json_value(to_value(new_iface),
                                                    diff_value[1])),
                        cur_iface)}

\* The loop body of lines 154-185: the entries one visited merged interface
\* adds to the result.
diff_entries(m) ==
    IF m.for_apply = None THEN {}
    ELSE IF m.current = None
    THEN {IF m.desired # None THEN m.desired[1] ELSE m.for_apply[1]}
    ELSE LET des_iface == m.for_apply[1]
             cur_iface == sanitize(m.current[1])
             diff_value == gen_diff_json_value(to_value(des_iface),
                                               to_value(cur_iface))
             new_iface == [clone_name_type_only(des_iface)
                               EXCEPT !.state = des_iface.state]
         IN  IF diff_value = None THEN {}
             ELSE {include_diff_context(
                        from_value(merge_json_value(to_value(new_iface),
                                                    diff_value[1])),
                        cur_iface)}

\* MergedInterfaces::gen_diff, lines 146-188
gen_diff(merged) == UNION {diff_entries(m) : m \in diff_visited(merged)}

---------------------------------------------------------------------------
(* State machine *)

\* The handler's trace before any call.
NoCall ==
    /\ saved_in = {}
    /\ cur = {}
    /\ event_in = NoEvent
    /\ event = NoEvent
    /\ delta = {}
    /\ derived = {}
    /\ applied = FALSE
    /\ apply_opt = NoApplyOption
    /\ result = "Ok"
    /\ handled = 0

\* MergedInterfaces::verify not called and without inputs.
NoVerifyCall ==
    /\ v_merged = {}
    /\ v_ignored = << >>
    /\ v_observed = {}
    /\ v_policy = NoPolicy
    /\ v_current = {}
    /\ v_result = VerifyOk
    /\ v_calls = 0

\* MergedInterface::generate_revert not called and without input.
NoRevertCall ==
    /\ r_merged = MergedInterface(None, None, None, None)
    /\ r_revert = None
    /\ r_calls = 0

\* MergedInterfaces::gen_diff not called and without input.
NoDiffCall ==
    /\ d_merged = {}
    /\ d_diff = {}
    /\ d_calls = 0

\* No call of the monitor manager made: no manager and no worker.
NoMonitorCall ==
    /\ m_call = << >>
    /\ m_mgr = "none"
    /\ m_worker = [watched |-> {}, wifi_monitor |-> FALSE, paused |-> FALSE,
                   has_sender |-> FALSE]

\* No call of nispor_apply made and nothing handed to the backend.
NoApplyCall ==
    /\ a_call = << >>
    /\ a_backend = << >>

\* No method called on an empty Interfaces collection.
NoPortsCall ==
    /\ p_before = {}
    /\ p_ifaces = {}
    /\ p_last = "none"
    /\ p_calls = 0

\* MergedDnsState::verify not called and without input.
NoDnsCall ==
    /\ n_merged =
        [changed |-> FALSE, servers |-> << >>, searches |-> << >>,
         options |-> << >>]
    /\ n_current = [config |-> << >>]
    /\ n_result = [kind |-> "Ok", msg |-> << >>]
    /\ n_calls = 0

NoOtherCall ==
    /\ NoMonitorCall
    /\ NoApplyCall
    /\ NoPortsCall
    /\ NoDnsCall

\* No link event in flight.
Idle ==
    /\ queue = << >>
    /\ pc = "idle"
    /\ fires = << >>

Init ==
    /\ saved \in SavedStates
    /\ NoCall
    /\ Idle
    /\ NoVerifyCall
    /\ NoRevertCall
    /\ NoDiffCall
    /\ NoOtherCall

(* NipartCommander::handle_link_event, lines 46-148.  It is an async method
   on &mut self: the commander runs one call at a time, and a call gives way
   at its awaits (lines 51, 52-54, 142), where other tasks run.  Each of its
   four `?` (lines 51, 54, 141, 142) may return an error to the caller. *)

\* Link events in flight at once.
MaxInFlight == 2

InFlightSaved ==
    {{a} : a \in {i \in SavedIfaces :
        /\ i.state = "Up"
        /\ i.up_trigger \in {NoTrigger, Carrier, WifiUp("home")}
        /\ i.down_trigger \in {NoTrigger, Carrier}}}

InFlightEvents ==
    {LinkEvent("eth0", "Ethernet", TRUE, None),
     LinkEvent("eth0", "Ethernet", FALSE, None),
     LinkEvent("wlan0", "WifiPhy", TRUE, Some("home")),
     LinkEvent("wlan0", "WifiPhy", FALSE, None)}

InFlightCur ==
    {c \in CurStates : \A i \in c : i.name = "wlan1" => i.ssid = None}

\* The triggers a call fires: per matched saved interface, the trigger of the
\* event's direction when that trigger arm is what matches the event.
fired(ev, trace, cur_ifaces) ==
    {<<Key(t.src), IF ev.is_up THEN t.src.up_trigger ELSE t.src.down_trigger>> :
        t \in {u \in trace :
            LET trigger == IF ev.is_up THEN u.src.up_trigger
                           ELSE u.src.down_trigger
            IN  /\ trigger # NoTrigger
                /\ is_trigger_matches(ev, trigger, u.src, cur_ifaces)}}

InitInFlight ==
    /\ saved \in InFlightSaved
    /\ NoCall
    /\ Idle
    /\ NoVerifyCall
    /\ NoRevertCall
    /\ NoDiffCall
    /\ NoOtherCall

\* Line 46: a call of handle_link_event starts with event e; it has queried
\* and built nothing yet.
StartCall(e) ==
    /\ event_in' = e
    /\ saved_in' = {}
    /\ cur' = {}
    /\ event' = NoEvent
    /\ delta' = {}
    /\ derived' = {}
    /\ applied' = FALSE
    /\ apply_opt' = NoApplyOption
    /\ pc' = "query_saved"
    /\ UNCHANGED <<saved, result, handled, fires>>

\* The commander is free and is given link event e: line 46.
Receive(e) ==
    /\ pc = "idle"
    /\ handled < MaxEvents
    /\ StartCall(e)
    /\ UNCHANGED queue
    /\ UNCHANGED <<vvars, rvars, dvars, xvars>>

\* The monitor plugin sends link event e to the commander.
Notify(e) ==
    /\ Len(queue) + handled + (IF pc = "idle" THEN 0 ELSE 1) < MaxInFlight
    /\ queue' = Append(queue, e)
    /\ UNCHANGED <<evars, pc, fires>>
    /\ UNCHANGED <<vvars, rvars, dvars, xvars>>

\* The commander is free and takes the next link event sent to it: line 46.
Begin ==
    /\ pc = "idle"
    /\ queue # << >>
    /\ StartCall(Head(queue))
    /\ queue' = Tail(queue)
    /\ UNCHANGED <<vvars, rvars, dvars, xvars>>

\* A `?` of lines 51, 54, 141 or 142 returns the error to the caller.
Fail ==
    /\ result' = "Err"
    /\ pc' = "idle"
    /\ handled' = handled + 1

\* Line 51: the await of conf_manager.query_state() completes, with the
\* saved state as it is now or with an error.
QuerySaved(ok) ==
    /\ pc = "query_saved"
    /\ IF ok
       THEN /\ saved_in' = saved
            /\ pc' = "query_cur"
            /\ UNCHANGED <<result, handled>>
       ELSE /\ Fail
            /\ UNCHANGED saved_in
    /\ UNCHANGED <<saved, cur, event_in, event, delta, derived, applied,
                   apply_opt, queue, fires>>
    /\ UNCHANGED <<vvars, rvars, dvars, xvars>>

\* Lines 52-54: the await of query_network_state(running) completes, with
\* the network in state c or with an error.
QueryCur(c, ok) ==
    /\ pc = "query_cur"
    /\ IF ok
       THEN /\ cur' = c
            /\ pc' = "evaluate"
            /\ UNCHANGED <<result, handled>>
       ELSE /\ Fail
            /\ UNCHANGED cur
    /\ UNCHANGED <<saved, saved_in, event_in, event, delta, derived, applied,
                   apply_opt, queue, fires>>
    /\ UNCHANGED <<vvars, rvars, dvars, xvars>>

\* Lines 56-141: the delta is built from the two snapshots the call holds; an
\* empty delta ends the call with Ok (144-147), a delta that is not empty is
\* merged with the observed state (137-141), and the merge may fail.
Evaluate(merge_ok) ==
    /\ pc = "evaluate"
    /\ \E ord \in Orders(saved_in) :
        LET ev == backfill(event_in, cur)
            d == build_delta(ev, ord, cur)
        IN  /\ event' = ev
            /\ delta' = d
            /\ derived' = loop_trace(ev, saved_in, cur)
            /\ applied' = should_apply(d)
            /\ IF should_apply(d)
               THEN /\ apply_opt' = NoVerify
                    /\ IF merge_ok
                       THEN /\ pc' = "apply"
                            /\ UNCHANGED <<result, handled>>
                       ELSE Fail
               ELSE /\ merge_ok
                    /\ apply_opt' = NoApplyOption
                    /\ result' = "Ok"
                    /\ pc' = "idle"
                    /\ handled' = handled + 1
    /\ UNCHANGED <<saved, saved_in, cur, event_in, queue, fires>>
    /\ UNCHANGED <<vvars, rvars, dvars, xvars>>

\* Line 142: the await of apply_merged_state completes; an apply that
\* succeeded has saved the applied interfaces.
Apply(ok) ==
    /\ pc = "apply"
    /\ IF ok
       THEN /\ saved' = save_applied(saved, delta)
            /\ fires' = Append(fires, fired(event, derived, cur))
            /\ result' = "Ok"
            /\ pc' = "idle"
            /\ handled' = handled + 1
       ELSE /\ Fail
            /\ UNCHANGED <<saved, fires>>
    /\ UNCHANGED <<saved_in, cur, event_in, event, delta, derived, applied,
                   apply_opt, queue>>
    /\ UNCHANGED <<vvars, rvars, dvars, xvars>>

\* While the call is suspended at an await, another client of conf_manager
\* applies saved interface i with its triggers cleared.
ClientApply(i) ==
    /\ pc \in {"query_saved", "query_cur", "apply"}
    /\ i \in saved
    /\ i.up_trigger # NoTrigger \/ i.down_trigger # NoTrigger
    /\ saved' = save_applied(saved,
            {[i EXCEPT !.up_trigger = NoTrigger, !.down_trigger = NoTrigger]})
    /\ UNCHANGED <<saved_in, cur, event_in, event, delta, derived, applied,
                   apply_opt, result, handled>>
    /\ UNCHANGED <<qvars, vvars, rvars, dvars, xvars>>

\* The commander handling the link events it is given one call after the
\* other.
Next ==
    \/ \E e \in Events : Receive(e)
    \/ \E ok \in BOOLEAN : QuerySaved(ok)
    \/ \E c \in CurStates, ok \in BOOLEAN : QueryCur(c, ok)
    \/ \E merge_ok \in BOOLEAN : Evaluate(merge_ok)
    \/ \E ok \in BOOLEAN : Apply(ok)
    \/ \E i \in SavedIfaces \cup SameNameIfaces : ClientApply(i)

Spec == Init /\ [][Next]_vars

\* The commander with link events in flight: the monitor sends further
\* events while a call is suspended.
NextInFlight ==
    \/ \E e \in InFlightEvents : Notify(e)
    \/ Begin
    \/ \E ok \in BOOLEAN : QuerySaved(ok)
    \/ \E c \in InFlightCur, ok \in BOOLEAN : QueryCur(c, ok)
    \/ \E merge_ok \in BOOLEAN : Evaluate(merge_ok)
    \/ \E ok \in BOOLEAN : Apply(ok)
    \/ \E i \in SavedIfaces \cup SameNameIfaces : ClientApply(i)

SpecInFlight == InitInFlight /\ [][NextInFlight]_vars

---------------------------------------------------------------------------
(* Vocabulary of the claims *)

\* The last call got both snapshots and evaluated the saved interfaces.
Evaluated == event # NoEvent

\* The last call evaluated a down-event / an up-event.
DownCall == Evaluated /\ ~event.is_up
UpCall == Evaluated /\ event.is_up

\* The saved interfaces the last call matched.
Matched == {t.src : t \in derived}

\* Some observed WifiPhy reports SSID s as associated.
SomePhyReports(s) ==
    \E c \in cur : c.iface_type = "WifiPhy" /\ c.ssid = Some(s)

\* Saved interface s is hit by the trigger-independent Wi-Fi rules of
\* is_event_matches: a WifiCfg profile by a WifiPhy event, a WifiPhy by an
\* event for the PHY of its name.
HitByWifiRule(s) ==
    \/ /\ s.iface_type = "WifiCfg"
       /\ event.iface_type = "WifiPhy"
       /\ IF event.is_up
          THEN event.ssid = ssid(s)
          ELSE parent(s) \in {None, Some(event.iface_name)}
    \/ /\ s.iface_type = "WifiPhy"
       /\ event.iface_type = "WifiPhy"
       /\ event.iface_name = s.name

\* Interface types no trigger-independent rule applies to.
PlainTypes == {"Ethernet", "LinuxBridge"}

IpDisabledIn(i) == i.ipv4 = IpDisabled /\ i.ipv6 = IpDisabled

---------------------------------------------------------------------------
(* C1 *)

\* C1 (as claimed): on a down-event for a saved physical interface of the
\* event's name and type whose down_trigger is Carrier, the delta entry built
\* for it keeps state Up, has ipv4 and ipv6 disabled and down_trigger cleared,
\* whatever its up_trigger.
C1_CarrierDownKeepsUp ==
    \A t \in derived :
        ( /\ DownCall
          /\ t.src.name = event.iface_name
          /\ t.src.iface_type = event.iface_type
          /\ ~is_virtual(t.src)
          /\ t.src.down_trigger = Carrier )
        => /\ t.out.state = "Up"
           /\ IpDisabledIn(t.out)
           /\ t.out.down_trigger = NoTrigger

---------------------------------------------------------------------------
(* C2 *)

\* C2 (as claimed): once a call has fired the WifiUp(ssid) up-trigger of a
\* saved interface and applied, no later call finds that trigger set on that
\* interface and fires it again.
C2_TriggerOneShot ==
    \A i, j \in DOMAIN fires : \A f \in fires[i] :
        (i < j /\ f[2].kind = "WifiUp") => f \notin fires[j]

---------------------------------------------------------------------------
(* C3 *)

\* Saved interface s carries a WifiDown down-trigger whose SSID an observed
\* WifiPhy still reports, and the last call handled a down-event.
WifiDownHeld(s) ==
    /\ DownCall
    /\ s.down_trigger.kind = "WifiDown"
    /\ SomePhyReports(s.down_trigger.ssid)

\* C3 (as claimed): a saved interface whose down_trigger is WifiDown(ssid) is
\* put in the delta by no down-event while an observed WifiPhy reports ssid.
C3_WifiDownNeverWhileAssociated ==
    \A s \in saved_in : WifiDownHeld(s) => s \notin Matched

\* C3 (amended): while an observed WifiPhy reports ssid, a saved interface
\* whose down_trigger is WifiDown(ssid) is put in the delta by a down-event
\* only through the trigger-independent Wi-Fi rules.
C3_WifiDownHeldBack ==
    \A s \in saved_in :
        (WifiDownHeld(s) /\ ~HitByWifiRule(s)) => s \notin Matched

\* A down-event left alone a plain interface whose WifiDown SSID one of the
\* two observed PHYs still reports while the other PHY does not.
C3_Witness ==
    \E s \in saved_in :
        /\ WifiDownHeld(s)
        /\ s.iface_type \in PlainTypes
        /\ \E c \in cur :
            c.iface_type = "WifiPhy" /\ c.ssid # Some(s.down_trigger.ssid)
        /\ s \notin Matched
        /\ s \in saved

---------------------------------------------------------------------------
(* C4 *)

\* C4 (as claimed): after a WifiPhy down-event the delta holds exactly one
\* entry for the event's PHY, with state Up and ipv4 and ipv6 disabled.
C4_PhyPurgeQueued ==
    (DownCall /\ event.iface_type = "WifiPhy")
    => /\ Cardinality({x \in delta :
            NameType(x) = <<event.iface_name, "WifiPhy">>}) = 1
       /\ \A x \in delta :
            NameType(x) = <<event.iface_name, "WifiPhy">>
            => x.state = "Up" /\ IpDisabledIn(x)

---------------------------------------------------------------------------
(* C5 *)

\* The last call handled a WifiPhy down-event that arrived without SSID
\* while the observed state had the event's PHY associated.
BackfillCase ==
    /\ DownCall
    /\ event_in.iface_type = "WifiPhy"
    /\ event_in.ssid = None
    /\ \E c \in cur :
        /\ c.name = event_in.iface_name
        /\ c.iface_type = "WifiPhy"
        /\ c.ssid # None

\* The SSID the observed state reports for the event's PHY.
ObservedSsid ==
    (CHOOSE c \in cur :
        c.name = event_in.iface_name /\ c.iface_type = "WifiPhy").ssid

\* Profile s is unparented and configured for the observed SSID.
UnparentedProfile(s) ==
    /\ s.iface_type = "WifiCfg"
    /\ s.wifi # None
    /\ parent(s) = None
    /\ ssid(s) = ObservedSsid

\* Profile s has a fixed parent other than the event's PHY.
ForeignProfile(s) ==
    /\ s.iface_type = "WifiCfg"
    /\ parent(s) \notin {None, Some(event_in.iface_name)}

\* The delta holds profile s rebound to the event's PHY, with IP
\* configuration disabled and down_trigger cleared.
ReboundInDelta(s) ==
    \E x \in delta :
        /\ Key(x) = Key(s)
        /\ x.wifi = Some(WifiConfig(s.wifi[1].ssid, Some(event_in.iface_name)))
        /\ IpDisabledIn(x)
        /\ x.down_trigger = NoTrigger

\* First half of C5: the SSID is backfilled and every unparented profile of
\* the observed SSID is matched and rebound in the delta.
C5_Backfilled ==
    BackfillCase =>
        /\ event.ssid = ObservedSsid
        /\ \A s \in saved_in :
            UnparentedProfile(s) => (s \in Matched /\ ReboundInDelta(s))

\* C5 (as claimed): the SSID is backfilled, the unparented profile matches
\* and is rebound in the delta, and no profile with a fixed parent other
\* than the event's PHY is matched.
C5_RebindAndForeignUnmatched ==
    /\ C5_Backfilled
    /\ BackfillCase =>
        \A s \in saved_in : ForeignProfile(s) => s \notin Matched

\* C5 (amended): as claimed, except that a profile with a fixed parent other
\* than the event's PHY is still matched when its own down_trigger is a
\* WifiDown(x) and no observed WifiPhy reports x.
C5_RebindAndForeignByTriggerOnly ==
    /\ C5_Backfilled
    /\ BackfillCase =>
        \A s \in saved_in :
            ForeignProfile(s) =>
                ( s \in Matched <=>
                    /\ s.down_trigger.kind = "WifiDown"
                    /\ ~SomePhyReports(s.down_trigger.ssid) )

\* The scenario happened: an unparented profile was rebound on a backfilled
\* down-event while a profile parented to another PHY was left alone.
C5_Witness ==
    /\ BackfillCase
    /\ \E s \in saved_in : UnparentedProfile(s) /\ ReboundInDelta(s)
    /\ \E s \in saved_in : ForeignProfile(s) /\ s \notin Matched

---------------------------------------------------------------------------
(* C6 *)

\* Entry out is the WifiPhy materialisation of profile src on the event's
\* PHY: the profile's base fields under the PHY's identity.
MaterializedFrom(src, out) ==
    /\ out.iface_type = "WifiPhy"
    /\ out.name = event.iface_name
    /\ out.down_trigger = src.down_trigger
    /\ out.ipv4 = src.ipv4
    /\ out.ipv6 = src.ipv6

\* C6 (as claimed): on an up-event every delta entry derived from a matched
\* saved interface has up_trigger cleared and state Up; the entry of a WifiCfg
\* profile matched by a WifiPhy association is the profile's materialisation
\* on the event's PHY, its up_trigger cleared as well.
C6_UpEntryCleared ==
    \A t \in derived :
        UpCall =>
            /\ t.out.up_trigger = NoTrigger
            /\ t.out.state = "Up"
            /\ (event.iface_type = "WifiPhy" /\ t.src.iface_type = "WifiCfg")
                => MaterializedFrom(t.src, t.out)

---------------------------------------------------------------------------
(* C7 *)

\* C7 (as claimed): on a down-event every matched saved interface whose
\* down_trigger is not Carrier gets state Absent when virtual and Down when
\* physical, with down_trigger cleared and ipv4/ipv6 disabled, for every
\* interface type and every up_trigger.
C7_DownEntryState ==
    \A t \in derived :
        (DownCall /\ t.src.down_trigger # Carrier) =>
            /\ t.out.state = IF is_virtual(t.src) THEN "Absent" ELSE "Down"
            /\ t.out.down_trigger = NoTrigger
            /\ IpDisabledIn(t.out)

\* C7 (amended): on a down-event every matched saved interface whose
\* down_trigger is not Carrier gets down_trigger cleared and ipv4/ipv6
\* disabled; it gets state Absent when virtual and Down when physical unless
\* it is a WifiCfg profile or its up_trigger is Carrier, and then it gets
\* state Up.
C7_DownEntryStateUnlessKeptUp ==
    \A t \in derived :
        (DownCall /\ t.src.down_trigger # Carrier) =>
            /\ t.out.state =
                IF t.src.iface_type = "WifiCfg" \/ t.src.up_trigger = Carrier
                THEN "Up"
                ELSE IF is_virtual(t.src) THEN "Absent" ELSE "Down"
            /\ t.out.down_trigger = NoTrigger
            /\ IpDisabledIn(t.out)

\* A down-event matched, by its WifiDown trigger, a virtual interface that
\* was saved Up with IP enabled, and the entry built for it is Absent.
C7_Witness ==
    \E t \in derived :
        /\ DownCall
        /\ t.src.down_trigger.kind = "WifiDown"
        /\ t.src.iface_type = "LinuxBridge"
        /\ t.src.state = "Up"
        /\ t.src.ipv4 = IpEnabled
        /\ t.out.state = "Absent"

---------------------------------------------------------------------------
(* C8 *)

\* C8 (as claimed), for the interface types only a trigger can match: on an
\* up-event an interface with up_trigger WifiUp("*") is matched whenever the
\* event carries an SSID, and one with WifiUp(s), s other than "*", is
\* matched iff the event's SSID is s.
C8_WifiUpWildcard ==
    \A s \in saved_in :
        ( /\ UpCall
          /\ s.iface_type \in PlainTypes
          /\ s.up_trigger.kind = "WifiUp" )
        => IF s.up_trigger.ssid = AnySsid
           THEN event.ssid # None => s \in Matched
           ELSE s \in Matched <=> event.ssid = Some(s.up_trigger.ssid)

---------------------------------------------------------------------------
(* C9 *)

\* C9 (as claimed), for the interface types only a trigger can match: on an
\* up-event an interface with up_trigger WifiUpNot(s) is matched iff the
\* event carries an SSID and that SSID is not s.
C9_WifiUpNotNeedsSsid ==
    \A s \in saved_in :
        ( /\ UpCall
          /\ s.iface_type \in PlainTypes
          /\ s.up_trigger.kind = "WifiUpNot" )
        => ( s \in Matched <=>
                (event.ssid # None /\ event.ssid # Some(s.up_trigger.ssid)) )

---------------------------------------------------------------------------
(* C10 *)

\* The trigger of saved interface s that the last call's event consults is
\* Never.
NeverApplies(s) ==
    \/ UpCall /\ s.up_trigger = Never
    \/ DownCall /\ s.down_trigger = Never

\* C10 (as claimed): an interface of any type whose up_trigger (down_trigger)
\* is Never is matched by no up-event (down-event).
C10_NeverUnmatched ==
    \A s \in saved_in : NeverApplies(s) => s \notin Matched

\* C10 (amended): an interface whose up_trigger (down_trigger) is Never is
\* matched by an up-event (down-event) only through the trigger-independent
\* Wi-Fi rules.
C10_NeverOnlyByWifiRule ==
    \A s \in saved_in :
        (NeverApplies(s) /\ ~HitByWifiRule(s)) => s \notin Matched

\* An event for the very interface whose consulted trigger is Never left
\* it alone, while its other trigger is Carrier.
C10_Witness ==
    \E s \in saved_in :
        /\ NeverApplies(s)
        /\ s.name = event.iface_name
        /\ s.iface_type = event.iface_type
        /\ Carrier \in {s.up_trigger, s.down_trigger}
        /\ s \notin Matched
        /\ s \in saved


---------------------------------------------------------------------------
(* MergedInterfaces::verify called once on a merged state and an observed
   snapshot. *)

\* The expectations (for_verify views) tried per interface.
ForVerifyIfaces ==
    {Iface("eth0", "Ethernet", "Up", None, {}),
     Iface("eth0", "Ethernet", "Up", Some(9000), {}),
     Iface("eth0", "Ethernet", "Down", None, {}),
     Iface("eth0", "Ethernet", "Absent", None, {}),
     Iface("br0", "LinuxBridge", "Up", None, {"eth0"}),
     Iface("br0", "LinuxBridge", "Down", None, {"eth0"}),
     Iface("br0", "LinuxBridge", "Absent", None, {}),
     Iface("ovs0", "OvsBridge", "Up", None, {"eth0"}),
     WithSriov(Iface("eth0", "Ethernet", "Up", None, {}), {"eth0v0"}),
     WithSriov(Iface("eth0", "Ethernet", "Down", None, {}), {"eth0v0"}),
     WithSriov(Iface("veth0", "Veth", "Up", None, {}), {"eth0v0"}),
     WithSriov(Iface("veth0", "Veth", "Down", None, {}), {"eth0v0"})}

\* The interfaces as they were before the apply.
PriorIfaces ==
    {Iface("eth0", "Ethernet", "Up", Some(1500), {}),
     Iface("br0", "LinuxBridge", "Up", Some(1500), {"eth0"})}

\* The merged interfaces tried: a desired interface, expected as desired, or
\* an interface that is not desired and is expected to stay as it was.
VerifyEntries ==
    {MergedInterface(Some(d), None, Some(d), Some(d)) : d \in ForVerifyIfaces}
    \cup {MergedInterface(None, Some(c), None, Some(c)) : c \in PriorIfaces}

\* One merged interface per key.
VerifyMerged ==
    {m \in SUBSET VerifyEntries :
        \A a, b \in m :
            Key(a.for_verify[1]) = Key(b.for_verify[1]) => a = b}

\* The observed snapshots tried.
ObservedIfaces ==
    {Iface("eth0", "Ethernet", "Up", Some(1500), {}),
     Iface("eth0", "Ethernet", "Down", Some(1500), {}),
     Iface("eth1", "Unknown", "Up", Some(1500), {}),
     Iface("br0", "LinuxBridge", "Up", Some(1500), {"eth0", "eth1"}),
     Iface("ovs0", "OvsBridge", "Up", None, {"eth0", "patch0"}),
     Iface("patch0", "OvsPatchPort", "Up", None, {}),
     Iface("eth0v0", "Ethernet", "Up", Some(1500), {}),
     Iface("veth0", "Veth", "Up", Some(1500), {})}

\* One observed interface per key.
VerifyObserved ==
    {o \in SUBSET ObservedIfaces : \A a, b \in o : Key(a) = Key(b) => a = b}

VerifyIgnored ==
    {<< >>, << <<"eth0", "Ethernet">> >>, << <<"br0", "LinuxBridge">> >>}

\* The policies tried.
SanitizePolicies ==
    {Policy(uncontrolled, allow) :
        uncontrolled \in SUBSET {"mtu"}, allow \in BOOLEAN}

InitVerify ==
    /\ saved = {}
    /\ NoCall
    /\ Idle
    /\ v_merged \in VerifyMerged
    /\ v_ignored \in VerifyIgnored
    /\ v_observed \in VerifyObserved
    /\ v_policy \in SanitizePolicies
    /\ v_current = {}
    /\ v_result = VerifyOk
    /\ v_calls = 0
    /\ NoRevertCall
    /\ NoDiffCall
    /\ NoOtherCall

\* MergedInterfaces::verify, lines 190-257, writing its working copy of the
\* observed interfaces back to the caller's.
VerifyInPlace ==
    /\ v_calls = 0
    /\ \E ord \in Orders(verify_visited(verify_merged(v_merged, v_policy))) :
        v_result' = verify(ord, v_merged, v_observed, v_ignored, v_policy)
    /\ v_current' = verify_current(v_merged, v_observed, v_ignored, v_policy)
    /\ v_observed' = verify_current(v_merged, v_observed, v_ignored, v_policy)
    /\ v_calls' = v_calls + 1
    /\ UNCHANGED <<v_merged, v_ignored, v_policy>>
    /\ UNCHANGED <<evars, qvars, rvars, dvars, xvars>>

\* MergedInterfaces::verify, lines 190-257: self and current are borrowed
\* shared and cloned (lines 194-195); the call works on the clones.
Verify ==
    /\ v_calls = 0
    /\ \E ord \in Orders(verify_visited(verify_merged(v_merged, v_policy))) :
        v_result' = verify(ord, v_merged, v_observed, v_ignored, v_policy)
    /\ v_current' = verify_current(v_merged, v_observed, v_ignored, v_policy)
    /\ v_calls' = v_calls + 1
    /\ UNCHANGED <<v_merged, v_ignored, v_observed, v_policy>>
    /\ UNCHANGED <<evars, qvars, rvars, dvars, xvars>>

NextVerify == Verify

SpecVerify == InitVerify /\ [][NextVerify]_vars

---------------------------------------------------------------------------
(* MergedInterface::generate_revert called once on a merged interface. *)

\* The for_apply views tried: any state, with or without an mtu.
ApplyIfaces ==
    {Iface(id[1], id[2], st, mtu, {}) :
        id \in {<<"eth0", "Ethernet">>, <<"br0", "LinuxBridge">>},
        st \in {"Up", "Down", "Absent"},
        mtu \in {None, Some(1500), Some(9000)}}

\* The current views tried: an observed interface reports its state and mtu.
CurrentIfaces ==
    {Iface(id[1], id[2], st, mtu, {}) :
        id \in {<<"eth0", "Ethernet">>, <<"br0", "LinuxBridge">>},
        st \in {"Up", "Down"},
        mtu \in {Some(1500), Some(9000)}}

RevertMerged ==
    {MergedInterface(Some(d), None, Some(d), Some(d)) : d \in ApplyIfaces}
    \cup {MergedInterface(None, Some(c), None, None) : c \in CurrentIfaces}
    \cup UNION {{MergedInterface(Some(d), Some(c), Some(d), Some(d)) :
                    c \in {x \in CurrentIfaces : Key(x) = Key(d)}} :
                        d \in ApplyIfaces}

InitRevert ==
    /\ saved = {}
    /\ NoCall
    /\ Idle
    /\ NoVerifyCall
    /\ r_merged \in RevertMerged
    /\ r_revert = None
    /\ r_calls = 0
    /\ NoDiffCall
    /\ NoOtherCall

GenerateRevert ==
    /\ r_calls = 0
    /\ r_revert' = generate_revert(r_merged)
    /\ r_calls' = r_calls + 1
    /\ UNCHANGED r_merged
    /\ UNCHANGED <<evars, qvars, vvars, dvars, xvars>>

NextRevert == GenerateRevert

SpecRevert == InitRevert /\ [][NextRevert]_vars

---------------------------------------------------------------------------
(* MergedInterfaces::gen_diff called once on a merged state. *)

\* Desired interfaces whose for_apply view the merge has rewritten: it carries
\* an mtu the desired view does not.
RewrittenEntries ==
    UNION {{MergedInterface(Some(d), c, Some([d EXCEPT !.mtu = Some(9000)]),
                            Some(d)) :
                c \in {None} \cup {Some(x) : x \in
                        {y \in CurrentIfaces : Key(y) = Key(d)}}} :
                    d \in {x \in ApplyIfaces :
                            x.mtu = None /\ x.state # "Absent"}}

\* Interfaces that are not desired: left alone, or changed by the merge on
\* behalf of another interface.
UndesiredEntries ==
    {MergedInterface(None, Some(c), None, None) : c \in CurrentIfaces}
    \cup {MergedInterface(None, Some(c),
                          Some([c EXCEPT !.state = "Down"]), Some(c)) :
            c \in {x \in CurrentIfaces : x.state = "Up"}}

\* The name and type a merged interface stands for.
MergedKey(m) ==
    IF m.desired # None THEN Key(m.desired[1]) ELSE Key(m.current[1])

\* The merged interfaces tried: a desired interface against no current
\* interface or against a current interface of its name and type, with the
\* for_apply view as desired or rewritten, and interfaces that are not
\* desired.
DiffEntries ==
    {MergedInterface(Some(d), None, Some(d), Some(d)) : d \in ApplyIfaces}
    \cup UNION {{MergedInterface(Some(d), Some(c), Some(d), Some(d)) :
                    c \in {x \in CurrentIfaces : Key(x) = Key(d)}} :
                        d \in ApplyIfaces}
    \cup RewrittenEntries
    \cup UndesiredEntries

\* One merged interface, or one per name for some of them.
DiffMerged ==
    {{m} : m \in DiffEntries}
    \cup UNION {{{a, b} : b \in {x \in DiffEntries :
                    /\ MergedKey(x)[1] = "br0"
                    /\ x.for_apply # None
                    /\ ~is_desired(x) \/ x.for_apply[1].mtu = None}} :
                        a \in {x \in DiffEntries :
                                MergedKey(x)[1] = "eth0"}}

InitDiff ==
    /\ saved = {}
    /\ NoCall
    /\ Idle
    /\ NoVerifyCall
    /\ NoRevertCall
    /\ d_merged \in DiffMerged
    /\ d_diff = {}
    /\ d_calls = 0
    /\ NoOtherCall

GenDiff ==
    /\ d_calls = 0
    /\ d_diff' = gen_diff(d_merged)
    /\ d_calls' = d_calls + 1
    /\ UNCHANGED d_merged
    /\ UNCHANGED <<evars, qvars, vvars, rvars, xvars>>

NextDiff == GenDiff

SpecDiff == InitDiff /\ [][NextDiff]_vars

---------------------------------------------------------------------------
(* C11 *)

\* The last call has returned.
Returned == pc = "idle" /\ handled > 0

\* The last call handled a WifiPhy down-event, which queues the purge entry.
PhyDownCall == Evaluated /\ ~event.is_up /\ event.iface_type = "WifiPhy"

\* C11: a call to handle_link_event that has returned has reached the merge,
\* which the apply follows, exactly when the delta it built is non-empty, and
\* then with the no_verify option; a call that evaluated the saved interfaces,
\* matched none and was not for a WifiPhy down-event reached neither and
\* returned Ok.
C11_ApplyIffDelta ==
    Returned =>
        /\ applied <=> delta # {}
        /\ applied => apply_opt = NoVerify
        /\ (Evaluated /\ Matched = {} /\ ~PhyDownCall)
            => /\ ~applied
               /\ apply_opt = NoApplyOption
               /\ result = "Ok"

\* Two calls have returned: one applied its delta without verification, the
\* last one matched nothing and returned Ok without applying.
C11_Witness ==
    /\ Returned
    /\ handled = 2
    /\ Len(fires) = 1
    /\ Evaluated
    /\ Matched = {}
    /\ ~PhyDownCall
    /\ ~applied
    /\ result = "Ok"

---------------------------------------------------------------------------
(* C12 *)

\* C12 (as claimed): of two link events in flight together that match the saved
\* interface's one-shot trigger, no two calls both find the trigger set and
\* both apply it.
C12_NoDoubleFire ==
    \A i, j \in DOMAIN fires : i < j => fires[i] \cap fires[j] = {}

---------------------------------------------------------------------------
(* C13 *)

Verified == v_calls > 0

\* Merged interface m is desired and expected gone: its for_verify view is
\* Absent, or virtual and Down.
ExpectedGone(m) ==
    /\ is_desired(m)
    /\ m.for_verify # None
    /\ \/ is_absent(m.for_verify[1])
       \/ is_virtual(m.for_verify[1]) /\ is_down(m.for_verify[1])

\* The observed snapshot, ignored interfaces apart, still holds a virtual
\* interface of the name and type of m's for_verify view.
StillFoundVirtual(m) ==
    \E c \in remove_ignored_ifaces(v_observed, v_ignored) :
        NameType(c) = NameType(m.for_verify[1]) /\ is_virtual(c)

\* C13 (as claimed): when a desired interface expected gone is still found in
\* the observed snapshot as a virtual interface, verify returns a
\* VerificationError naming that interface.
C13_GoneButFoundNamed ==
    \A m \in v_merged :
        (Verified /\ ExpectedGone(m) /\ StillFoundVirtual(m))
        => v_result = VerificationError(m.for_verify[1])

\* C13 (amended): in that case verify returns a VerificationError; it names
\* that interface unless it names another desired interface that fails
\* verification itself.
C13_GoneButFoundFails ==
    \A m \in v_merged :
        (Verified /\ ExpectedGone(m) /\ StillFoundVirtual(m))
        => /\ v_result.kind = "VerificationError"
           /\ \/ v_result = VerificationError(m.for_verify[1])
              \/ \E o \in verify_visited(verify_merged(v_merged, v_policy)) :
                    /\ NameType(o.for_verify[1]) # NameType(m.for_verify[1])
                    /\ verify_iface(o, v_current) = v_result

\* verify has failed naming a virtual Down interface that is still observed.
C13_Witness ==
    \E m \in v_merged :
        /\ Verified
        /\ ExpectedGone(m)
        /\ is_down(m.for_verify[1])
        /\ StillFoundVirtual(m)
        /\ v_result = VerificationError(m.for_verify[1])

---------------------------------------------------------------------------
(* C14 *)

\* Merged interface m is desired, physical and expected Down.
PhysicalDown(m) ==
    /\ is_desired(m)
    /\ m.for_verify # None
    /\ ~is_virtual(m.for_verify[1])
    /\ is_down(m.for_verify[1])

\* C14: verify never returns an error for a desired physical interface whose
\* for_verify view is Down, whatever the observed snapshot shows for it.
C14_PhysicalDownExempt ==
    \A m \in v_merged :
        (Verified /\ PhysicalDown(m))
        => v_result # VerificationError(m.for_verify[1])

\* verify has passed a physical interface expected Down and observed Up.
C14_Witness ==
    \E m \in v_merged :
        /\ Verified
        /\ PhysicalDown(m)
        /\ \E c \in v_current :
            NameType(c) = NameType(m.for_verify[1]) /\ is_up(c)
        /\ v_result = VerifyOk

---------------------------------------------------------------------------
(* C15 *)

\* Merged interface m is desired and expected Up, and the observed snapshot,
\* ignored interfaces removed, has no interface of its name and type.
UpButMissing(m) ==
    /\ is_desired(m)
    /\ m.for_verify # None
    /\ is_up(m.for_verify[1])
    /\ \A c \in remove_ignored_ifaces(v_observed, v_ignored) :
        NameType(c) # NameType(m.for_verify[1])

\* C15: verify returns a VerificationError whenever a desired interface
\* expected Up is missing from the observed snapshot once ignored interfaces
\* are removed, and an error of verify always names a desired interface.
C15_UpMustExist ==
    Verified =>
        /\ (\E m \in v_merged : UpButMissing(m))
            => v_result.kind = "VerificationError"
        /\ v_result.kind = "VerificationError"
            => \E m \in v_merged :
                /\ is_desired(m)
                /\ v_result = VerificationError(m.for_verify[1])

\* verify has failed on a desired Up interface that is missing, beside an
\* interface that is not desired and is missing as well.
C15_Witness ==
    /\ Verified
    /\ \E m \in v_merged :
        UpButMissing(m) /\ v_result = VerificationError(m.for_verify[1])
    /\ \E o \in v_merged :
        /\ ~is_desired(o)
        /\ \A c \in v_current : NameType(c) # NameType(o.for_verify[1])

---------------------------------------------------------------------------
(* C16 *)

\* C16: a call of verify, whatever it returns, leaves the merged state it is
\* called on and the observed interfaces passed to it as they were.
C16_VerifyReadOnly ==
    [][ v_calls' # v_calls
        => /\ v_merged' = v_merged
           /\ v_ignored' = v_ignored
           /\ v_policy' = v_policy
           /\ v_observed' = v_observed ]_vars

\* verify has returned after dropping an ignored interface, an unknown-type
\* port, a tolerated patch port and an uncontrolled field from its working
\* copy.
C16_Witness ==
    /\ Verified
    /\ v_ignored # << >>
    /\ \E c \in v_observed : \A w \in v_current : Key(w) # Key(c)
    /\ \E c \in v_observed, w \in v_current :
        Key(w) = Key(c) /\ "eth1" \in c.ports \ w.ports
    /\ \E c \in v_observed, w \in v_current, port_iface \in v_current :
        /\ Key(w) = Key(c)
        /\ port_iface.name \in c.ports \ w.ports
        /\ is_ovs_patch_port(port_iface)
    /\ \E c \in v_observed, w \in v_current :
        Key(w) = Key(c) /\ w.mtu # c.mtu

---------------------------------------------------------------------------
(* C17 *)

Reverted == r_calls > 0

\* C17 (as claimed): for a merged interface whose for_apply view equals its
\* current view, generate_revert returns None.
C17_NoOpSuppressed ==
    (Reverted /\ r_merged.for_apply # None
              /\ r_merged.for_apply = r_merged.current)
    => r_revert = None

---------------------------------------------------------------------------
(* C18 *)

\* The interface after the for_apply view has been applied to the current one.
AfterApply == backend_apply(r_merged.for_apply[1], r_merged.current)

\* The interface after the revert record, when there is one, has been applied
\* in turn.
AfterRevert ==
    IF r_revert = None THEN AfterApply
    ELSE backend_apply(r_revert[1], AfterApply)

\* C18: applying the for_apply view to the current interface and then the
\* record generate_revert returns gives the current interface back, field
\* for field; when the for_apply view is Absent and the interface existed,
\* the record is the current interface in full.
C18_RevertRoundTrip ==
    (Reverted /\ r_merged.for_apply # None)
    => /\ AfterRevert = r_merged.current
       /\ (is_absent(r_merged.for_apply[1]) /\ r_merged.current # None)
            => r_revert = r_merged.current

\* A revert record that gives back an mtu the apply has changed.
C18_Witness ==
    /\ Reverted
    /\ r_merged.for_apply # None
    /\ r_merged.current # None
    /\ r_revert # None
    /\ AfterApply # r_merged.current
    /\ AfterApply # None
    /\ AfterApply[1].mtu # r_merged.current[1].mtu
    /\ AfterRevert = r_merged.current

---------------------------------------------------------------------------
(* C19 *)

\* C19: generate_revert returns None for a merged interface without for_apply
\* view; with a for_apply view and no current view it returns a record of the
\* for_apply view's name and type, state Absent, and no other field.
C19_RevertOfNew ==
    Reverted =>
        /\ r_merged.for_apply = None => r_revert = None
        /\ (r_merged.for_apply # None /\ r_merged.current = None)
            => /\ r_revert # None
               /\ to_value(r_revert[1]) =
                    [k \in {"name", "type", "state"} |->
                        CASE k = "name" -> r_merged.for_apply[1].name
                          [] k = "type" -> r_merged.for_apply[1].iface_type
                          [] k = "state" -> "Absent"]

\* The revert of a new interface that was applied Up with an mtu.
C19_Witness ==
    /\ Reverted
    /\ r_merged.for_apply # None
    /\ r_merged.current = None
    /\ is_up(r_merged.for_apply[1])
    /\ r_merged.for_apply[1].mtu # None
    /\ r_revert # None
    /\ is_absent(r_revert[1])

---------------------------------------------------------------------------
(* C20 *)

Diffed == d_calls > 0

\* The current view of merged interface m is what applying it exactly as
\* requested leaves: applying its desired view and its for_apply view once
\* more changes nothing.
AppliedAsRequested(m) ==
    /\ is_desired(m)
    /\ m.for_apply # None
    /\ backend_apply(m.desired[1], m.current) = m.current
    /\ backend_apply(m.for_apply[1], m.current) = m.current

\* C20 (as claimed): gen_diff yields no entry for an interface whose current
\* view is what applying its desired view exactly as requested leaves.
C20_DiffIdempotent ==
    \A m \in d_merged :
        (Diffed /\ AppliedAsRequested(m))
        => \A i \in d_diff : Key(i) # Key(m.desired[1])

---------------------------------------------------------------------------
(* C21 *)

\* Merged interface m is desired, has a for_apply view and no current view.
DesiredNew(m) == is_desired(m) /\ m.for_apply # None /\ m.current = None

\* C21: for a desired merged interface without current view the entry of
\* gen_diff is the original desired interface as it is, not the for_apply
\* view, and it is the only entry of that name and type.
C21_NewIsDesiredVerbatim ==
    \A m \in d_merged :
        (Diffed /\ DesiredNew(m))
        => /\ m.desired[1] \in d_diff
           /\ \A i \in d_diff : Key(i) = MergedKey(m) => i = m.desired[1]

\* gen_diff has put out the desired view of a new interface whose for_apply
\* view was rewritten.
C21_Witness ==
    \E m \in d_merged :
        /\ Diffed
        /\ DesiredNew(m)
        /\ m.for_apply # m.desired
        /\ m.desired[1] \in d_diff

---------------------------------------------------------------------------
(* C28 *)

\* The for_apply view of m carries an mtu that differs from the current one.
MtuDiffers(m) ==
    /\ m.for_apply[1].mtu # None
    /\ m.for_apply[1].mtu # m.current[1].mtu

\* No field the for_apply view of m carries differs from the current view.
NothingDiffers(m) ==
    /\ m.for_apply[1].state = m.current[1].state
    /\ ~MtuDiffers(m)

\* C28: an entry of gen_diff for a desired interface that has a current view
\* carries the name, type and state of the for_apply view and, of the other
\* fields, exactly those on which the for_apply view differs from the
\* current view; where nothing differs there is no entry, and there is none
\* for an interface that is not desired.
C28_DiffIsMinimal ==
    \A m \in d_merged :
        Diffed =>
            /\ (is_desired(m) /\ m.for_apply # None /\ m.current # None)
                => /\ \A i \in d_diff : Key(i) = MergedKey(m) =>
                        /\ i.state = m.for_apply[1].state
                        /\ i.mtu = IF MtuDiffers(m)
                                   THEN m.for_apply[1].mtu ELSE None
                        /\ i.ports = {}
                   /\ NothingDiffers(m)
                        => \A i \in d_diff : Key(i) # MergedKey(m)
            /\ ~is_desired(m) => \A i \in d_diff : Key(i) # MergedKey(m)

\* gen_diff has put out an entry with the mtu alone changed, beside an
\* interface that is not desired and that the merge has changed.
C28_Witness ==
    /\ Diffed
    /\ \E m \in d_merged, i \in d_diff :
        /\ is_desired(m)
        /\ m.current # None
        /\ Key(i) = MergedKey(m)
        /\ MtuDiffers(m)
        /\ m.for_apply[1].state = m.current[1].state
        /\ i.mtu = m.for_apply[1].mtu
    /\ \E o \in d_merged :
        ~is_desired(o) /\ o.for_apply # None /\ o.for_apply # o.current

-----------------------------------------------------------------------------
(* NipartMonitorManager, src/src/daemon/monitor/monitor_manager.rs, and the *)
(* monitor worker its commands are sent to.  Every method is an async fn    *)
(* that gives way at each mgr.exec(..).await; the manager is Clone (line    *)
(* 19), so calls made on clones of it are under way together and their     *)
(* commands reach the one worker in any interleaving.                       *)

\* Number of setup_monitor calls followed.
MaxSetups == 2

\* Number of pause and resume calls followed.
MaxPauses == 1

\* Number of calls of new followed.
MaxNews == 1

\* InterfaceTrigger::is_wifi (trigger.rs lines 33-40).
is_wifi(trigger) == trigger.kind \in {"WifiUp", "WifiDown", "WifiUpNot"}

\* NipartMonitorCmd as sent through mgr.exec.
MonitorCmd(cmd, name) == [cmd |-> cmd, name |-> name]
AddIface(name) == MonitorCmd("AddIface", name)
DelIface(name) == MonitorCmd("DelIface", name)
EnableWifiMonitor == MonitorCmd("EnableWifiMonitor", NoName)
DisableWifiMonitor == MonitorCmd("DisableWifiMonitor", NoName)
Pause == MonitorCmd("Pause", NoName)
Resume == MonitorCmd("Resume", NoName)
SetCommanderSender == MonitorCmd("SetCommanderSender", NoName)

\* wifi_monitor_is_needed with the is_absent filter of line 121 left out.
wifi_monitor_is_needed_absent_too(full_saved_state) ==
    \E iface \in full_saved_state :
        \/ iface.iface_type = "WifiCfg" /\ ssid(iface) # None
        \/ is_wifi(iface.up_trigger)
        \/ is_wifi(iface.down_trigger)

\* wifi_monitor_is_needed, lines 120-138: only the interfaces that are not
\* Absent are looked at.
wifi_monitor_is_needed(full_saved_state) ==
    \E iface \in {i \in full_saved_state : ~is_absent(i)} :
        \/ iface.iface_type = "WifiCfg" /\ ssid(iface) # None
        \/ is_wifi(iface.up_trigger)
        \/ is_wifi(iface.down_trigger)

\* Lines 59-63: the Wi-Fi command of a call.
wifi_cmd(full_saved_state) ==
    IF wifi_monitor_is_needed(full_saved_state)
    THEN EnableWifiMonitor
    ELSE DisableWifiMonitor

\* iface_cmd with the Carrier tests ahead of the Absent test.
iface_cmd_carrier_first(iface) ==
    IF iface.up_trigger.kind = "Carrier" THEN <<AddIface(iface.name)>>
    ELSE IF iface.down_trigger.kind = "Carrier" THEN <<AddIface(iface.name)>>
    ELSE IF is_absent(iface) THEN <<DelIface(iface.name)>>
    ELSE << >>

\* iface_cmd removing every interface that carries no Carrier trigger.
iface_cmd_del_untriggered(iface) ==
    IF is_absent(iface) THEN <<DelIface(iface.name)>>
    ELSE IF iface.up_trigger.kind = "Carrier" THEN <<AddIface(iface.name)>>
    ELSE IF iface.down_trigger.kind = "Carrier" THEN <<AddIface(iface.name)>>
    ELSE <<DelIface(iface.name)>>

\* Lines 70-80: the command of one for_apply view, if any.
iface_cmd(iface) ==
    IF is_absent(iface) THEN <<DelIface(iface.name)>>
    ELSE IF iface.up_trigger.kind = "Carrier" THEN <<AddIface(iface.name)>>
    ELSE IF iface.down_trigger.kind = "Carrier" THEN <<AddIface(iface.name)>>
    ELSE << >>

\* Lines 65-81: the commands of the loop over merged_state.ifaces, in
\* iteration order ord, skipping the entries without a for_apply view.
RECURSIVE monitor_loop(_)
monitor_loop(ord) ==
    IF ord = << >> THEN << >>
    ELSE (IF Head(ord).for_apply = None
          THEN << >>
          ELSE iface_cmd(Head(ord).for_apply[1]))
         \o monitor_loop(Tail(ord))

\* Lines 59-82: every command of a call none of whose commands fails.
setup_monitor_cmds(ord, full_saved_state) ==
    <<wifi_cmd(full_saved_state)>> \o monitor_loop(ord)

\* The monitor worker: the interfaces it watches for carrier changes, whether
\* it scans for SSIDs, whether it is paused and whether it holds the sender
\* of the commander.
MonitorWorker(watched, wifi_monitor, paused, has_sender) ==
    [watched |-> watched, wifi_monitor |-> wifi_monitor, paused |-> paused,
     has_sender |-> has_sender]

\* No worker, and the worker TaskManager::new starts.
NoWorker == MonitorWorker({}, FALSE, FALSE, FALSE)

\* The monitor worker taking one command.
worker_exec(worker, cmd) ==
    CASE cmd.cmd = "AddIface" ->
            [worker EXCEPT !.watched = @ \cup {cmd.name}]
      [] cmd.cmd = "DelIface" ->
            [worker EXCEPT !.watched = @ \ {cmd.name}]
      [] cmd.cmd = "EnableWifiMonitor" ->
            [worker EXCEPT !.wifi_monitor = TRUE]
      [] cmd.cmd = "DisableWifiMonitor" ->
            [worker EXCEPT !.wifi_monitor = FALSE]
      [] cmd.cmd = "Pause" -> [worker EXCEPT !.paused = TRUE]
      [] cmd.cmd = "Resume" -> [worker EXCEPT !.paused = FALSE]
      [] cmd.cmd = "SetCommanderSender" ->
            [worker EXCEPT !.has_sender = TRUE]

\* A call of a method of the manager that is suspended at an await: the
\* method, its arguments, the commands it has sent through mgr.exec (the
\* last of them is the one it waits for), and the commands it goes on to
\* send, which its arguments fix.
MonitorCall(fn, merged, full_saved_state, cmds, todo) ==
    [fn |-> fn, merged |-> merged, full_saved |-> full_saved_state,
     cmds |-> cmds, todo |-> todo, result |-> "Pending", fail_at |-> 0]

\* Saved interfaces a call may be given as its full saved state.
MonitorWifiCfg(state, wifi_ssid) ==
    Interface("home", "WifiCfg", state, NoTrigger, NoTrigger, IpUnset,
              IpUnset,
              IF wifi_ssid = None THEN None
              ELSE Some(WifiConfig(wifi_ssid[1], None)))
MonitorEth(name, state, up, down) ==
    Interface(name, "Ethernet", state, up, down, IpUnset, IpUnset, None)
MonitorSavedStates ==
    {{},
     {MonitorWifiCfg("Up", Some("home"))},
     {MonitorWifiCfg("Absent", Some("home"))},
     {MonitorWifiCfg("Up", None),
      MonitorEth("eth0", "Up", Carrier, NoTrigger)},
     {MonitorWifiCfg("Up", None),
      MonitorEth("eth0", "Up", WifiUp("home"), NoTrigger)},
     {MonitorEth("eth0", "Up", Carrier, WifiDown("home"))},
     {MonitorEth("eth0", "Absent", WifiUpNot("home"), NoTrigger)}}

\* Merged interfaces a call may be given: per name at most one entry, with
\* or without a for_apply view.
MonitorViews(name) ==
    {MonitorEth(name, st, up, down) :
        st \in {"Up", "Absent"},
        up \in {NoTrigger, Carrier},
        down \in {NoTrigger, Carrier}}
MonitorDesired(v) == MergedInterface(Some(v), None, Some(v), Some(v))
MonitorEntries(name) ==
    {MonitorDesired(v) : v \in MonitorViews(name)}
    \cup {MergedInterface(None,
                          Some(MonitorEth(name, "Up", NoTrigger, NoTrigger)),
                          None, None)}
MonitorMerged ==
    {{}} \cup {{a} : a \in MonitorEntries("eth0")}
    \cup {{a, b} : a \in MonitorEntries("eth0"),
                   b \in {x \in MonitorEntries("eth1") :
                            x.for_apply # None
                            /\ x.for_apply[1].up_trigger = NoTrigger
                            /\ is_absent(x.for_apply[1])
                                = (x.for_apply[1].down_trigger = NoTrigger)}}

\* The arguments of the first call of setup_monitor: every merged state with
\* a saved state that asks for no scanning, and every saved state with a
\* merged state of no view and one of two.
MonitorFirstArgs ==
    {<<merged, full_saved_state>> :
        merged \in MonitorMerged,
        full_saved_state \in {{}, {MonitorWifiCfg("Absent", Some("home"))}}}
    \cup
    {<<merged, full_saved_state>> :
        merged \in {{},
                    {MonitorDesired(MonitorEth("eth0", "Up", Carrier, NoTrigger)),
                     MonitorDesired(MonitorEth("eth1", "Up", NoTrigger, Carrier))}},
        full_saved_state \in MonitorSavedStates}

\* The arguments of a call of setup_monitor made after another one: eth0
\* watched and eth1 dropped, the reverse, eth0 dropped, and eth0 kept without
\* a Carrier trigger.
MonitorLaterArgs ==
    {<<{MonitorDesired(MonitorEth("eth0", "Up", Carrier, NoTrigger)),
        MonitorDesired(MonitorEth("eth1", "Absent", NoTrigger, NoTrigger))},
       {}>>,
     <<{MonitorDesired(MonitorEth("eth0", "Absent", NoTrigger, NoTrigger)),
        MonitorDesired(MonitorEth("eth1", "Up", NoTrigger, Carrier))},
       {}>>,
     <<{MonitorDesired(MonitorEth("eth0", "Absent", NoTrigger, Carrier))},
       {MonitorWifiCfg("Up", Some("home"))}>>,
     <<{MonitorDesired(MonitorEth("eth0", "Up", NoTrigger, NoTrigger))},
       {}>>}

\* The calls of method fn made so far.
CallsOf(fn) == {c \in DOMAIN m_call : m_call[c].fn = fn}

InitMonitor ==
    /\ saved = {}
    /\ NoCall
    /\ Idle
    /\ NoVerifyCall
    /\ NoRevertCall
    /\ NoDiffCall
    /\ NoMonitorCall
    /\ NoApplyCall
    /\ NoPortsCall
    /\ NoDnsCall

\* NipartMonitorManager::new, lines 26-30: the call starts and waits for
\* TaskManager::new to start the worker.
NewStart ==
    /\ m_mgr = "none"
    /\ Cardinality(CallsOf("new")) < MaxNews
    /\ m_call' = Append(m_call,
            MonitorCall("new", {}, {}, << >>, <<SetCommanderSender>>))
    /\ m_mgr' = "starting"
    /\ UNCHANGED m_worker
    /\ UNCHANGED <<evars, qvars, vvars, rvars, dvars, avars, pvars, nvars>>

\* Line 30: the await of TaskManager::new completes in call c; with the
\* worker started, SetCommanderSender is sent to it (lines 33-37), otherwise
\* the `?` returns the error.
NewWorker(c, ok) ==
    /\ c \in CallsOf("new")
    /\ m_call[c].result = "Pending"
    /\ m_call[c].cmds = << >>
    /\ IF ok
       THEN /\ m_mgr' = "started"
            /\ m_worker' = NoWorker
            /\ m_call' = [m_call EXCEPT ![c].cmds = <<Head(m_call[c].todo)>>,
                                         ![c].todo = Tail(m_call[c].todo)]
       ELSE /\ m_mgr' = "none"
            /\ m_call' = [m_call EXCEPT ![c].result = "Err"]
            /\ UNCHANGED m_worker
    /\ UNCHANGED <<evars, qvars, vvars, rvars, dvars, avars, pvars, nvars>>

\* pause, lines 41-44, and resume, lines 46-49: the call starts and waits at
\* its mgr.exec.
PauseResumeStart(fn, cmd) ==
    /\ m_mgr = "ready"
    /\ Cardinality(CallsOf("pause") \cup CallsOf("resume")) < MaxPauses
    /\ m_call' = Append(m_call, MonitorCall(fn, {}, {}, <<cmd>>, << >>))
    /\ UNCHANGED <<m_mgr, m_worker>>
    /\ UNCHANGED <<evars, qvars, vvars, rvars, dvars, avars, pvars, nvars>>

\* setup_monitor, lines 54-63: the call starts, sends its Wi-Fi command and
\* waits at the await of line 60 or 62; ord is the order in which it goes on
\* to iterate merged_state.ifaces.
SetupMonitorStart(merged, full_saved_state, ord) ==
    /\ m_mgr = "ready"
    /\ Cardinality(CallsOf("setup_monitor")) < MaxSetups
    /\ m_call' = Append(m_call,
            MonitorCall("setup_monitor", merged, full_saved_state,
                <<Head(setup_monitor_cmds(ord, full_saved_state))>>,
                Tail(setup_monitor_cmds(ord, full_saved_state))))
    /\ UNCHANGED <<m_mgr, m_worker>>
    /\ UNCHANGED <<evars, qvars, vvars, rvars, dvars, avars, pvars, nvars>>

\* The await of the mgr.exec call c waits at completes (lines 37, 42, 47,
\* 60, 62, 71, 75, 79).  A command that succeeded has been taken by the
\* worker, and the call goes on to its next mgr.exec or returns Ok; a command
\* that failed ends the call at its `?`.
Exec(c, ok) ==
    /\ c \in DOMAIN m_call
    /\ m_call[c].result = "Pending"
    /\ m_call[c].cmds # << >>
    /\ IF ok
       THEN /\ m_worker' =
                worker_exec(m_worker, m_call[c].cmds[Len(m_call[c].cmds)])
            /\ m_call' =
                IF m_call[c].todo = << >>
                THEN [m_call EXCEPT ![c].result = "Ok"]
                ELSE [m_call EXCEPT
                        ![c].cmds = Append(@, Head(m_call[c].todo)),
                        ![c].todo = Tail(m_call[c].todo)]
            /\ m_mgr' = IF m_call[c].fn = "new" THEN "ready" ELSE m_mgr
       ELSE /\ m_call' = [m_call EXCEPT ![c].result = "Err",
                                         ![c].fail_at = Len(m_call[c].cmds)]
            /\ m_mgr' = IF m_call[c].fn = "new" THEN "none" ELSE m_mgr
            /\ UNCHANGED m_worker
    /\ UNCHANGED <<evars, qvars, vvars, rvars, dvars, avars, pvars, nvars>>

NextMonitor ==
    \/ NewStart
    \/ \E c \in 1..MaxNews, ok \in BOOLEAN : NewWorker(c, ok)
    \/ \E args \in IF CallsOf("setup_monitor") = {}
                   THEN MonitorFirstArgs ELSE MonitorLaterArgs :
            \E ord \in Orders(args[1]) :
                SetupMonitorStart(args[1], args[2], ord)
    \/ PauseResumeStart("pause", Pause)
    \/ PauseResumeStart("resume", Resume)
    \/ \E c \in 1..(MaxNews + MaxSetups + MaxPauses), ok \in BOOLEAN :
            Exec(c, ok)

SpecMonitor == InitMonitor /\ [][NextMonitor]_vars

-----------------------------------------------------------------------------
(* C22: the Wi-Fi scan command of setup_monitor *)

\* The calls of setup_monitor made so far, and those that have returned.
SetupCalls == CallsOf("setup_monitor")
SetupReturned == {c \in SetupCalls : m_call[c].result # "Pending"}

WifiCmds == {EnableWifiMonitor, DisableWifiMonitor}

\* A saved interface that asks for Wi-Fi scanning: a WifiCfg profile with a
\* concrete SSID, or a Wi-Fi up- or down-trigger.
WantsWifiScan(iface) ==
    \/ iface.iface_type = "WifiCfg"
        /\ iface.wifi # None
    \/ iface.up_trigger.kind \in {"WifiUp", "WifiDown", "WifiUpNot"}
    \/ iface.down_trigger.kind \in {"WifiUp", "WifiDown", "WifiUpNot"}

\* The call has issued one Wi-Fi scan command, as its first command, and has
\* none left to issue.
OneScanCmdFirst(call) ==
    /\ Len(call.cmds) >= 1
    /\ call.cmds[1] \in WifiCmds
    /\ \A k \in 2..Len(call.cmds) : call.cmds[k] \notin WifiCmds
    /\ \A k \in 1..Len(call.todo) : call.todo[k] \notin WifiCmds

\* C22 as stated: every call of setup_monitor issues exactly one Wi-Fi scan
\* command, before any interface command, and that command is
\* EnableWifiMonitor iff some interface of the full saved state, Absent or
\* not, asks for Wi-Fi scanning, DisableWifiMonitor otherwise.
C22_ScanIffAnySaved ==
    \A c \in SetupCalls :
        /\ OneScanCmdFirst(m_call[c])
        /\ m_call[c].cmds[1] = EnableWifiMonitor
            <=> \E iface \in m_call[c].full_saved : WantsWifiScan(iface)

\* C22 amended: every call of setup_monitor issues exactly one Wi-Fi scan
\* command, before any interface command, and that command is
\* EnableWifiMonitor iff some interface of the full saved state that is not
\* Absent asks for Wi-Fi scanning, DisableWifiMonitor otherwise.
C22_ScanIffPresentSaved ==
    \A c \in SetupCalls :
        /\ OneScanCmdFirst(m_call[c])
        /\ m_call[c].cmds[1] = EnableWifiMonitor
            <=> \E iface \in m_call[c].full_saved :
                    iface.state # "Absent" /\ WantsWifiScan(iface)

\* A call that has returned whose saved state asks for Wi-Fi scanning through
\* an Absent interface only, that disabled scanning, which the worker took,
\* and went on to interface commands.
C22_Witness ==
    \E c \in SetupReturned :
        /\ \E iface \in m_call[c].full_saved : WantsWifiScan(iface)
        /\ \A iface \in m_call[c].full_saved :
                WantsWifiScan(iface) => iface.state = "Absent"
        /\ m_call[c].cmds[1] = DisableWifiMonitor
        /\ Len(m_call[c].cmds) > 1
        /\ m_call[c].result = "Ok"
        /\ ~m_worker.wifi_monitor

-----------------------------------------------------------------------------
(* C23: the interface commands of setup_monitor *)

\* The for_apply views of the merged state of a call.
MonitorForApply(call) ==
    {m.for_apply[1] : m \in {x \in call.merged : x.for_apply # None}}

HasCarrierTrigger(view) ==
    \/ view.up_trigger = Carrier
    \/ view.down_trigger = Carrier

\* The interface command a view calls for, if any.
ViewCmds(view) ==
    IF view.state = "Absent"
    THEN {DelIface(view.name)}
    ELSE IF HasCarrierTrigger(view)
    THEN {AddIface(view.name)}
    ELSE {}

\* The interface commands a call has issued.
IfaceCmdsAt(call) == 2..Len(call.cmds)

\* C23: for each for_apply view of the merged state setup_monitor issues
\* DelIface(name) when the view is Absent, AddIface(name) when it is not
\* Absent and its up_trigger or down_trigger is Carrier, and no interface
\* command otherwise; at most one interface command per view, Absent winning
\* over a Carrier trigger; and the first failing command ends the call with
\* an error, no later command being issued.
C23_IfaceCmds ==
    \A c \in SetupCalls :
        LET call == m_call[c]
        IN  /\ \A k \in IfaceCmdsAt(call) :
                    \E view \in MonitorForApply(call) :
                        call.cmds[k] \in ViewCmds(view)
            /\ \A j, k \in IfaceCmdsAt(call) :
                    j # k => call.cmds[j].name # call.cmds[k].name
            /\ call.result = "Ok" =>
                    /\ call.fail_at = 0
                    /\ \A view \in MonitorForApply(call) :
                            \A cmd \in ViewCmds(view) :
                                \E k \in IfaceCmdsAt(call) : call.cmds[k] = cmd
            /\ call.result = "Err" =>
                    /\ call.fail_at # 0
                    /\ Len(call.cmds) = call.fail_at

\* A call over two views that both call for a command, the first of them
\* Absent with a Carrier trigger: its DelIface was issued and failed, and
\* the command of the second view was not issued.
C23_Witness ==
    \E c \in SetupReturned :
        /\ Cardinality(MonitorForApply(m_call[c])) = 2
        /\ \A view \in MonitorForApply(m_call[c]) : ViewCmds(view) # {}
        /\ \E view \in MonitorForApply(m_call[c]) :
                /\ view.state = "Absent"
                /\ HasCarrierTrigger(view)
                /\ m_call[c].cmds = <<m_call[c].cmds[1], DelIface(view.name)>>
        /\ m_call[c].fail_at = 2
        /\ m_call[c].result = "Err"

-----------------------------------------------------------------------------
(* C24: the watched set over a sequence of setup_monitor calls *)

\* The merged state has an entry of that name whose for_apply view is Absent.
AbsentInMerged(merged, name) ==
    \E m \in merged :
        /\ m.for_apply # None
        /\ m.for_apply[1].name = name
        /\ m.for_apply[1].state = "Absent"

\* The merged state has an entry of that name whose for_apply view is
\* present and carries no Carrier trigger.
PresentUntriggered(merged, name) ==
    \E m \in merged :
        /\ m.for_apply # None
        /\ m.for_apply[1].name = name
        /\ m.for_apply[1].state # "Absent"
        /\ ~HasCarrierTrigger(m.for_apply[1])

\* The names of the interfaces of the inputs.
MonitorNames == {"eth0", "eth1"}

\* C24: over any sequence of setup_monitor calls a watched interface leaves
\* the watched set only by a command of a call whose merged state has its
\* for_apply view Absent, and a call in which the interface is present
\* without a Carrier trigger issues no DelIface for it.
C24_WatchedIncremental ==
    [][/\ \A name \in m_worker.watched \ m_worker'.watched :
            \E c \in SetupCalls :
                /\ m_call'[c] # m_call[c]
                /\ AbsentInMerged(m_call[c].merged, name)
       /\ \A c \in DOMAIN m_call' :
            \A name \in MonitorNames :
                (/\ m_call'[c].fn = "setup_monitor"
                 /\ PresentUntriggered(m_call'[c].merged, name)) =>
                    \A k \in 1..Len(m_call'[c].cmds) :
                        m_call'[c].cmds[k] # DelIface(name)]_vars

\* Two calls of setup_monitor, one after the other, have gone through: the
\* first added an interface, the second had it present without a Carrier
\* trigger, and the interface is still watched.
C24_Witness ==
    \E c, d \in SetupReturned :
        /\ c < d
        /\ m_call[c].result = "Ok"
        /\ m_call[d].result = "Ok"
        /\ \E name \in m_worker.watched :
                /\ \E k \in 1..Len(m_call[c].cmds) :
                        m_call[c].cmds[k] = AddIface(name)
                /\ PresentUntriggered(m_call[d].merged, name)

-----------------------------------------------------------------------------
(* nispor_apply and delete_ifaces, src/src/plugin_nispor/apply.rs *)

\* u32::MAX of line 32, the default up_priority, on the scale of the
\* priorities the inputs use.
U32_MAX == 3

\* An interface as nispor_apply reads it: identity, state, up_priority and
\* the peer of its veth section (None: no veth section).
ApplyIface(name, type, state, up_priority, veth) ==
    [name |-> name, iface_type |-> type, state |-> state,
     up_priority |-> up_priority, veth |-> veth]

\* MergedInterface with the views nispor_apply reads.
ApplyMerged(merged, current, for_apply) ==
    [merged |-> merged, current |-> current, for_apply |-> for_apply]

\* MergedInterface::is_changed.
is_changed(iface) == iface.for_apply # iface.current

\* The Interface::Ethernet variant of lines 78, 104 and 128.
is_ethernet(iface) == iface.iface_type \in {"Ethernet", "Veth"}

\* The bytes of the strings that are sorted: str is ordered byte by byte.
str_bytes(name) ==
    CASE name = "br0" -> <<98, 114, 48>>
      [] name = "edns0" -> <<101, 100, 110, 115, 48>>
      [] name = "rotate" -> <<114, 111, 116, 97, 116, 101>>
      [] name = "eth0" -> <<101, 116, 104, 48>>
      [] name = "eth1" -> <<101, 116, 104, 49>>
      [] name = "home" -> <<104, 111, 109, 101>>
      [] name = "unk0" -> <<117, 110, 107, 48>>
      [] name = "veth0" -> <<118, 101, 116, 104, 48>>
      [] name = "veth1" -> <<118, 101, 116, 104, 49>>

\* Ord for str: lexicographic order of the bytes.
RECURSIVE bytes_lt(_, _)
bytes_lt(a, b) ==
    IF b = << >> THEN FALSE
    ELSE IF a = << >> THEN TRUE
    ELSE IF Head(a) # Head(b) THEN Head(a) < Head(b)
    ELSE bytes_lt(Tail(a), Tail(b))
str_lt(a, b) == bytes_lt(str_bytes(a), str_bytes(b))

\* nipart_iface_type_to_np, lines 58-69.
nipart_iface_type_to_np(nms_iface_type) ==
    CASE nms_iface_type = "LinuxBridge" -> "Bridge"
      [] nms_iface_type = "Bond" -> "Bond"
      [] nms_iface_type = "Ethernet" -> "Ethernet"
      [] nms_iface_type = "Veth" -> "Veth"
      [] nms_iface_type = "Vlan" -> "Vlan"
      [] OTHER -> "Unknown"

\* nipart_iface_to_np, lines 71-111: name, type and state of the request
\* entry; its other fields are not followed.
nipart_iface_to_np(nms_iface) ==
    [name |-> nms_iface.name,
     iface_type |->
        IF is_ethernet(nms_iface) /\ nms_iface.veth # None
        THEN "Veth"
        ELSE nipart_iface_type_to_np(nms_iface.iface_type),
     state |-> IF is_absent(nms_iface) THEN "Absent" ELSE "Up"]

\* Line 25: sort_unstable_by_key on the name; entries of the same name end
\* in either order.
sort_unstable_by_name(ifaces) ==
    {o \in Orders(ifaces) :
        \A i, j \in 1..Len(o) :
            i < j => ~str_lt(o[j].merged.name, o[i].merged.name)}

\* Lines 29-33: the sort key.
up_priority_key(iface) ==
    IF iface.for_apply # None
    THEN iface.for_apply[1].up_priority
    ELSE U32_MAX

\* The position of an entry in a sequence without repetition.
index_of(seq, x) == CHOOSE i \in 1..Len(seq) : seq[i] = x

\* sort_by_key left out: the order by name is handed on.
sort_by_key_skipped(seq) == seq

\* Lines 28-34: the stable sort_by_key on up_priority.
sort_by_key(seq) ==
    CHOOSE o \in Orders({seq[i] : i \in 1..Len(seq)}) :
        \A i, j \in 1..Len(o) :
            i < j =>
                /\ up_priority_key(o[i]) <= up_priority_key(o[j])
                /\ up_priority_key(o[i]) = up_priority_key(o[j])
                    => index_of(seq, o[i]) < index_of(seq, o[j])

\* np_ifaces_of without the filter of lines 37-39.
RECURSIVE np_ifaces_of_unfiltered(_)
np_ifaces_of_unfiltered(seq) ==
    IF seq = << >> THEN << >>
    ELSE (IF Head(seq).for_apply # None
          THEN <<nipart_iface_to_np(Head(seq).for_apply[1])>>
          ELSE << >>)
         \o np_ifaces_of_unfiltered(Tail(seq))

\* Lines 36-43: the request entries of the sorted interfaces.
RECURSIVE np_ifaces_of(_)
np_ifaces_of(seq) ==
    IF seq = << >> THEN << >>
    ELSE (IF /\ Head(seq).merged.iface_type # "Unknown"
             /\ ~is_absent(Head(seq).merged)
             /\ Head(seq).for_apply # None
          THEN <<nipart_iface_to_np(Head(seq).for_apply[1])>>
          ELSE << >>)
         \o np_ifaces_of(Tail(seq))

\* delete_loop pushing both ends of a veth pair.
RECURSIVE delete_loop_both_ends(_, _)
delete_loop_both_ends(ord, deleted_veths) ==
    IF ord = << >> THEN << >>
    ELSE (IF Head(ord).for_apply # None
          THEN <<nipart_iface_to_np(Head(ord).for_apply[1])>>
          ELSE << >>)
         \o delete_loop_both_ends(Tail(ord), deleted_veths)

\* Lines 118-142: the loop of delete_ifaces over the Absent kernel
\* interfaces in iteration order ord.
RECURSIVE delete_loop(_, _)
delete_loop(ord, deleted_veths) ==
    IF ord = << >> THEN << >>
    ELSE IF Head(ord).merged.name \in deleted_veths
    THEN delete_loop(Tail(ord), deleted_veths)
    ELSE (IF Head(ord).for_apply # None
          THEN <<nipart_iface_to_np(Head(ord).for_apply[1])>>
          ELSE << >>)
         \o delete_loop(Tail(ord),
                IF /\ Head(ord).current # None
                   /\ is_ethernet(Head(ord).current[1])
                   /\ Head(ord).current[1].veth # None
                THEN deleted_veths
                        \cup {Head(ord).current[1].name,
                              Head(ord).current[1].veth[1]}
                ELSE deleted_veths)

\* Lines 118-122: what delete_ifaces iterates over.
absent_kernel_ifaces(merged_ifaces) ==
    {i \in merged_ifaces : ~is_userspace(i.merged) /\ is_absent(i.merged)}

\* Lines 19-23: what nispor_apply sorts.
changed_ifaces(merged_ifaces) == {i \in merged_ifaces : is_changed(i)}

\* Lines 49-52 and 148-151: the error made from a backend error.
ApplyOk == [kind |-> "Ok", msg |-> << >>]
PluginFailure(e) ==
    [kind |-> "PluginFailure",
     msg |-> <<"Unknown error from nipsor plugin: ", e.kind, ", ", e.msg>>]

\* The errors the backend may answer with.
BackendErrors ==
    {[kind |-> "PermissionDeny", msg |-> "EPERM"],
     [kind |-> "NisporBug", msg |-> "netlink"]}

\* Merged interfaces a call may be given. An entry that is desired has a
\* for_apply view of the desired state; the two ends of a veth pair name
\* each other in their current views.
ApplyChanged(name, type, state, up_priority, veth) ==
    ApplyMerged(ApplyIface(name, type, state, up_priority, veth),
                Some(ApplyIface(name, type,
                                IF state = "Up" THEN "Down" ELSE "Up",
                                U32_MAX, veth)),
                Some(ApplyIface(name, type, state, up_priority, veth)))
ApplySame(name, type, up_priority) ==
    ApplyMerged(ApplyIface(name, type, "Up", up_priority, None),
                Some(ApplyIface(name, type, "Up", up_priority, None)),
                Some(ApplyIface(name, type, "Up", up_priority, None)))
ApplyUntouched(name, type) ==
    ApplyMerged(ApplyIface(name, type, "Up", U32_MAX, None),
                Some(ApplyIface(name, type, "Up", U32_MAX, None)),
                None)
ApplyEntries(name) ==
    CASE name = "eth0" ->
            {ApplyChanged(name, "Ethernet", "Up", p, None) :
                p \in {0, 1, U32_MAX}}
            \cup {ApplyChanged(name, "Ethernet", "Absent", U32_MAX, None),
                  ApplyUntouched(name, "Ethernet")}
      [] name = "eth1" ->
            {ApplyChanged(name, "Ethernet", "Down", p, None) :
                p \in {1, U32_MAX}}
            \cup {ApplySame(name, "Ethernet", 0)}
      [] name = "br0" ->
            {ApplyChanged(name, "LinuxBridge", "Up", p, None) :
                p \in {0, U32_MAX}}
            \cup {ApplyChanged(name, "LinuxBridge", "Absent", U32_MAX, None)}
      [] name = "unk0" ->
            {ApplyChanged(name, "Unknown", "Up", 0, None)}
      [] name = "home" ->
            {ApplyChanged(name, "WifiCfg", st, 0, None) :
                st \in {"Up", "Absent"}}
      [] name = "veth0" ->
            {ApplyChanged(name, "Veth", st, U32_MAX, Some("veth1")) :
                st \in {"Up", "Absent"}}
      [] name = "veth1" ->
            {ApplyChanged(name, "Veth", st, U32_MAX, Some("veth0")) :
                st \in {"Up", "Absent"}}
ApplyNames == {"br0", "eth0", "eth1", "home", "unk0", "veth0", "veth1"}

\* Number of nispor_apply calls followed.
MaxApplyCalls == 2

\* Largest number of interfaces in the merged state of the first call.
MaxApplyIfaces == 3

ApplyMergedStates ==
    {s \in SUBSET (UNION {ApplyEntries(n) : n \in ApplyNames}) :
        /\ Cardinality(s) <= MaxApplyIfaces
        /\ \A x, y \in s : x.merged.name = y.merged.name => x = y}

\* The merged states of a call made after another one: nothing to do, one
\* interface to bring up, and one interface to delete with one to change.
ApplyLaterStates ==
    {{},
     {ApplyChanged("eth0", "Ethernet", "Up", 0, None)},
     {ApplyChanged("veth0", "Veth", "Absent", U32_MAX, Some("veth1")),
      ApplyChanged("eth1", "Ethernet", "Down", 1, None)}}

\* The backend answering without error.
NoBackendError == [kind |-> "none", msg |-> "none"]

\* Which backend call of a nispor_apply call failed, and with what.
BackendFail(call, e) == [call |-> call, kind |-> e.kind, msg |-> e.msg]
NoBackendFail == BackendFail(0, NoBackendError)

\* What the backend has seen, in order: a request of a call handed to
\* NetConf::apply_async, or its answer to the request the call waits for.
BackendRequest(c, np_ifaces) ==
    [call |-> c, what |-> "request", ifaces |-> np_ifaces,
     error |-> NoBackendError]
BackendAnswer(c, e) ==
    [call |-> c, what |-> "answer", ifaces |-> << >>, error |-> e]

\* A call of nispor_apply suspended at the await of line 17 (pc "delete"),
\* at that of line 48 (pc "change"), or returned (pc "done").
ApplyPending == [kind |-> "Pending", msg |-> << >>]
ApplyCall(merged, del_ord, np_ifaces) ==
    [merged |-> merged, del_ord |-> del_ord, requests |-> <<np_ifaces>>,
     fail |-> NoBackendFail, result |-> ApplyPending, pc |-> "delete"]

InitApply ==
    /\ saved = {}
    /\ NoCall
    /\ Idle
    /\ NoVerifyCall
    /\ NoRevertCall
    /\ NoDiffCall
    /\ NoMonitorCall
    /\ NoApplyCall
    /\ NoPortsCall
    /\ NoDnsCall

\* nispor_apply, line 17, into delete_ifaces, lines 113-147: the call makes
\* the delete request, del_ord being the iteration order of kernel_ifaces,
\* hands it to the backend and waits for the answer.
NisporApplyStart(merged, del_ord) ==
    /\ Len(a_call) < MaxApplyCalls
    /\ a_call' = Append(a_call,
            ApplyCall(merged, del_ord, delete_loop(del_ord, {})))
    /\ a_backend' = Append(a_backend,
            BackendRequest(Len(a_call) + 1, delete_loop(del_ord, {})))
    /\ UNCHANGED <<evars, qvars, vvars, rvars, dvars, mvars, pvars, nvars>>

\* Lines 147-154 and 17-48: the backend answers the delete request of call
\* c.  An error becomes the PluginFailure the `?` of line 17 returns;
\* otherwise the call makes the create/change request, by_name being the
\* outcome of the unstable sort, hands it to the backend and waits.
DeleteAnswered(c, e, by_name) ==
    /\ c \in DOMAIN a_call
    /\ a_call[c].pc = "delete"
    /\ IF e = NoBackendError
       THEN /\ a_call' = [a_call EXCEPT
                    ![c].requests =
                        Append(@, np_ifaces_of(sort_by_key(by_name))),
                    ![c].pc = "change"]
            /\ a_backend' = a_backend
                \o <<BackendAnswer(c, e),
                     BackendRequest(c, np_ifaces_of(sort_by_key(by_name)))>>
       ELSE /\ a_call' = [a_call EXCEPT
                    ![c].fail = BackendFail(1, e),
                    ![c].result = PluginFailure(e),
                    ![c].pc = "done"]
            /\ a_backend' = Append(a_backend, BackendAnswer(c, e))
    /\ UNCHANGED <<evars, qvars, vvars, rvars, dvars, mvars, pvars, nvars>>

\* Lines 48-55: the backend answers the create/change request of call c,
\* and the call returns.
ChangeAnswered(c, e) ==
    /\ c \in DOMAIN a_call
    /\ a_call[c].pc = "change"
    /\ a_call' = [a_call EXCEPT
            ![c].fail = IF e = NoBackendError THEN NoBackendFail
                        ELSE BackendFail(2, e),
            ![c].result = IF e = NoBackendError THEN ApplyOk
                          ELSE PluginFailure(e),
            ![c].pc = "done"]
    /\ a_backend' = Append(a_backend, BackendAnswer(c, e))
    /\ UNCHANGED <<evars, qvars, vvars, rvars, dvars, mvars, pvars, nvars>>

NextApply ==
    \/ \E merged \in IF a_call = << >>
                     THEN ApplyMergedStates ELSE ApplyLaterStates :
            \E del_ord \in Orders(absent_kernel_ifaces(merged)) :
                NisporApplyStart(merged, del_ord)
    \/ \E c \in 1..MaxApplyCalls, e \in {NoBackendError} \cup BackendErrors :
            \E by_name \in IF c \in DOMAIN a_call
                           THEN sort_unstable_by_name(
                                    changed_ifaces(a_call[c].merged))
                           ELSE {<< >>} :
                DeleteAnswered(c, e, by_name)
    \/ \E c \in 1..MaxApplyCalls, e \in {NoBackendError} \cup BackendErrors :
            ChangeAnswered(c, e)

SpecApply == InitApply /\ [][NextApply]_vars

-----------------------------------------------------------------------------
(* C25: the order of the create/change request *)

\* The calls of nispor_apply that got to their create/change request.
ChangeRequested == {c \in DOMAIN a_call : Len(a_call[c].requests) = 2}

\* The interfaces the create/change request is made of: changed, neither
\* Absent nor of Unknown type, and with a for_apply view.
ToBeHanded(merged) ==
    {m \in merged :
        /\ m.for_apply # None
        /\ m.for_apply # m.current
        /\ m.merged.state # "Absent"
        /\ m.merged.iface_type # "Unknown"}

\* The interface names in use, in alphabetical order.
Alphabet == <<"br0", "eth0", "eth1", "home", "unk0", "veth0", "veth1">>
AlphaRank(name) == CHOOSE k \in 1..Len(Alphabet) : Alphabet[k] = name

\* x may come before y: smaller up_priority, or the same up_priority and a
\* name that is not later in the alphabet.
MayPrecede(x, y) ==
    \/ x.for_apply[1].up_priority < y.for_apply[1].up_priority
    \/ /\ x.for_apply[1].up_priority = y.for_apply[1].up_priority
       /\ AlphaRank(x.merged.name) <= AlphaRank(y.merged.name)

\* C25: the create/change request of nispor_apply holds the changed,
\* non-absent, known-type interfaces in ascending up_priority order, those
\* of equal up_priority in alphabetical order of name, so that an interface
\* with the default (maximum) up_priority comes after every interface with
\* a smaller one; an interface without for_apply view is not in the request.
C25_UpPriorityOrder ==
    \A c \in ChangeRequested :
        \E o \in Orders(ToBeHanded(a_call[c].merged)) :
            /\ Len(a_call[c].requests[2]) = Len(o)
            /\ \A k \in 1..Len(o) :
                    /\ a_call[c].requests[2][k].name = o[k].merged.name
                    /\ a_call[c].requests[2][k].state = "Up"
            /\ \A i, j \in 1..Len(o) : i < j => MayPrecede(o[i], o[j])

EntryOf(merged, name) == CHOOSE m \in merged : m.merged.name = name

\* The up_priority of the k-th interface of the create/change request of
\* call c.
RequestedPriority(c, k) ==
    EntryOf(a_call[c].merged, a_call[c].requests[2][k].name)
        .for_apply[1].up_priority

\* A create/change request of three interfaces in which up_priority put a
\* name before an alphabetically earlier one, and in which two interfaces
\* of the same up_priority stand in alphabetical order, the last of the
\* three having the default up_priority.
C25_Witness ==
    \E c \in ChangeRequested :
        /\ Len(a_call[c].requests[2]) = 3
        /\ AlphaRank(a_call[c].requests[2][1].name)
            > AlphaRank(a_call[c].requests[2][2].name)
        /\ RequestedPriority(c, 2) = RequestedPriority(c, 3)
        /\ RequestedPriority(c, 3) = U32_MAX

-----------------------------------------------------------------------------
(* C26: the deletion call comes first *)

\* The Absent kernel interfaces of a merged state.
AbsentKernel(merged) ==
    {m \in merged :
        /\ m.merged.state = "Absent"
        /\ m.merged.iface_type \notin {"WifiCfg", "OvsBridge"}}

\* The elements of a sequence.
Elems(seq) == {seq[k] : k \in 1..Len(seq)}

\* What the backend has seen of call c, in order.
BackendSeen(c) == SelectSeq(a_backend, LAMBDA x : x.call = c)

\* C26: nispor_apply makes the deletion of the Absent kernel interfaces its
\* first backend call, and makes the create/change call, its second, only
\* once the backend has answered the first without error; when the deletion
\* fails, a PluginFailure carrying the kind and the message of the backend
\* error is returned and the create/change call is never made; no Absent
\* and no Unknown-type interface is part of the create/change call.
C26_DeleteFirst ==
    \A c \in DOMAIN a_call :
        LET call == a_call[c]
            seen == BackendSeen(c)
        IN  /\ Len(call.requests) >= 1
            /\ seen[1] = BackendRequest(c, call.requests[1])
            /\ \A conf \in Elems(call.requests[1]) :
                    /\ conf.state = "Absent"
                    /\ \E m \in AbsentKernel(call.merged) :
                            m.merged.name = conf.name
            /\ call.pc = "delete" =>
                    /\ seen = <<BackendRequest(c, call.requests[1])>>
                    /\ Len(call.requests) = 1
            /\ call.fail.call = 1 =>
                    /\ Len(call.requests) = 1
                    /\ Len(seen) = 2
                    /\ seen[2].what = "answer"
                    /\ call.result.kind = "PluginFailure"
                    /\ call.fail.kind \in Elems(call.result.msg)
                    /\ call.fail.msg \in Elems(call.result.msg)
            /\ (call.pc # "delete" /\ call.fail.call # 1) =>
                    /\ Len(call.requests) = 2
                    /\ seen[2] = BackendAnswer(c, NoBackendError)
                    /\ seen[3] = BackendRequest(c, call.requests[2])
                    /\ \A conf \in Elems(call.requests[2]) :
                            /\ conf.state # "Absent"
                            /\ \A m \in call.merged :
                                    m.merged.name = conf.name =>
                                        /\ m.merged.state # "Absent"
                                        /\ m.merged.iface_type # "Unknown"

\* A call whose deletion request was not empty and failed while another
\* call was waiting for the backend, with an interface waiting to be created
\* or changed and an Unknown-type interface in the merged state.
C26_Witness ==
    \E c, d \in DOMAIN a_call :
        /\ a_call[c].fail.call = 1
        /\ a_call[c].requests[1] # << >>
        /\ a_call[c].result.kind = "PluginFailure"
        /\ ToBeHanded(a_call[c].merged) # {}
        /\ \E m \in a_call[c].merged : m.merged.iface_type = "Unknown"
        /\ a_call[d].pc = "change"

-----------------------------------------------------------------------------
(* C27: one end of a veth pair is deleted *)

\* x and y are the two ends of a veth pair and both are Absent.
BothEndsAbsent(merged, x, y) ==
    /\ x \in AbsentKernel(merged)
    /\ y \in AbsentKernel(merged)
    /\ x # y
    /\ x.current # None
    /\ x.current[1].veth = Some(y.merged.name)
    /\ y.current # None
    /\ y.current[1].veth = Some(x.merged.name)

\* How often an interface name is in the deletion request of a call.
TimesDeleted(call, name) ==
    Cardinality({k \in 1..Len(call.requests[1]) :
                    call.requests[1][k].name = name})

\* x is iterated before y by delete_ifaces.
IteratedBefore(call, x, y) ==
    \E i, j \in 1..Len(call.del_ord) :
        i < j /\ call.del_ord[i] = x /\ call.del_ord[j] = y

\* C27: when both ends of a veth pair are Absent in the merged state, the
\* deletion request of delete_ifaces holds exactly one of them, the end
\* iterated first; every other Absent kernel interface that has a for_apply
\* view is in the request exactly once.
C27_OneVethEnd ==
    \A c \in DOMAIN a_call :
        LET call == a_call[c]
        IN  /\ \A x, y \in call.merged :
                    (/\ BothEndsAbsent(call.merged, x, y)
                     /\ IteratedBefore(call, x, y)) =>
                        /\ TimesDeleted(call, x.merged.name) = 1
                        /\ TimesDeleted(call, y.merged.name) = 0
            /\ \A x \in AbsentKernel(call.merged) :
                    (/\ x.for_apply # None
                     /\ ~\E y \in call.merged :
                            BothEndsAbsent(call.merged, x, y)) =>
                        TimesDeleted(call, x.merged.name) = 1

\* A deletion request over both ends of an Absent veth pair and a third
\* Absent kernel interface, veth1 having been iterated before veth0, that
\* the backend has answered.
C27_Witness ==
    \E c \in DOMAIN a_call :
        /\ \E x, y \in a_call[c].merged :
                /\ BothEndsAbsent(a_call[c].merged, x, y)
                /\ IteratedBefore(a_call[c], x, y)
                /\ x.merged.name = "veth1"
                /\ TimesDeleted(a_call[c], "veth1") = 1
                /\ TimesDeleted(a_call[c], "veth0") = 0
        /\ Len(a_call[c].requests[1]) = 2
        /\ a_call[c].pc # "delete"

-----------------------------------------------------------------------------
(* Interfaces::update and Interfaces::remove_unknown_type_port called on a  *)
(* collection, src/src/lib/state/query_apply/inter_ifaces.rs lines 17-98    *)

\* Number of calls on the collection followed.
MaxPortCalls == 3

\* Collections to start from: eth0 and eth1 of a known type, of type
\* Unknown or missing, eth0 a Tun interface as well, a kernel bridge and a
\* user-level bridge with ports among eth0, eth1 and a name no interface has.
PortNames == {"eth0", "eth1", "ghost"}
PortIfaces ==
    {e0 \cup e1 \cup b \cup o :
        e0 \in {{}} \cup {{Iface("eth0", t, "Up", None, {})} :
                            t \in {"Ethernet", "Unknown", "Tun"}},
        e1 \in {{}} \cup {{Iface("eth1", t, "Up", None, {})} :
                            t \in {"Ethernet", "Unknown"}},
        b \in {{}} \cup {{Iface("br0", "LinuxBridge", "Up", None, ps)} :
                            ps \in SUBSET PortNames},
        o \in {{}} \cup {{Iface("ovs0", "OvsBridge", "Up", None, ps)} :
                            ps \in SUBSET {"eth0", "eth1"}}}

\* Collections merged into the collection by update: a bridge over eth0 and
\* a name no interface has, eth0 Down with an MTU, eth0 as an OvsInterface,
\* eth1 of type Unknown, and a user-level bridge beside a kernel interface.
PortOthers ==
    {{Iface("br0", "LinuxBridge", "Up", None, {"eth0", "ghost"})},
     {Iface("eth0", "Ethernet", "Down", Some(9000), {})},
     {Iface("eth0", "OvsInterface", "Up", None, {})},
     {Iface("eth1", "Unknown", "Up", None, {})},
     {Iface("ovs0", "OvsBridge", "Up", None, {"eth1"}),
      Iface("eth1", "Ethernet", "Up", Some(1500), {})}}

InitPorts ==
    /\ saved = {}
    /\ NoCall
    /\ Idle
    /\ NoVerifyCall
    /\ NoRevertCall
    /\ NoDiffCall
    /\ NoMonitorCall
    /\ NoApplyCall
    /\ NoDnsCall
    /\ p_before \in PortIfaces
    /\ p_ifaces = p_before
    /\ p_last = "none"
    /\ p_calls = 0

\* One call of update, lines 17-66, on the collection.
Update(other) ==
    /\ p_calls < MaxPortCalls
    /\ p_before' = p_ifaces
    /\ p_ifaces' = update(p_ifaces, other)
    /\ p_last' = "update"
    /\ p_calls' = p_calls + 1
    /\ UNCHANGED <<evars, qvars, vvars, rvars, dvars, mvars, avars, nvars>>

\* One call of remove_unknown_type_port, lines 68-98, on the collection.
RemoveUnknownTypePort ==
    /\ p_calls < MaxPortCalls
    /\ p_before' = p_ifaces
    /\ p_ifaces' = remove_unknown_type_port(p_ifaces)
    /\ p_last' = "remove_unknown_type_port"
    /\ p_calls' = p_calls + 1
    /\ UNCHANGED <<evars, qvars, vvars, rvars, dvars, mvars, avars, nvars>>

NextPorts ==
    \/ \E other \in PortOthers : Update(other)
    \/ RemoveUnknownTypePort

SpecPorts == InitPorts /\ [][NextPorts]_vars

-----------------------------------------------------------------------------
(* C29: the ports left by remove_unknown_type_port *)

\* The call made last on the collection is one of remove_unknown_type_port;
\* p_before is the collection it was called on.
PortsCleaned == p_last = "remove_unknown_type_port"

\* A controller: an interface that holds ports.
HoldsPorts(iface) == iface.iface_type \in {"LinuxBridge", "OvsBridge"}

\* The name resolves to an interface of the collection of a known type.
ResolvesToKnown(ifaces, name) ==
    \E i \in ifaces : i.name = name /\ i.iface_type # "Unknown"

\* C29: after remove_unknown_type_port no controller of the collection,
\* kernel or user-level, lists a port whose name resolves to no interface of
\* the collection or to an interface of type Unknown; the ports that resolve
\* to an interface of a known type are kept; and the collection holds the
\* same interfaces as before, unchanged but for the ports of controllers.
C29_OnlyKnownPorts ==
    PortsCleaned =>
        /\ \A c \in {i \in p_ifaces : HoldsPorts(i)} :
                \A port \in c.ports : ResolvesToKnown(p_ifaces, port)
        /\ \A b \in p_before :
                \E i \in p_ifaces :
                    /\ i.name = b.name
                    /\ i.iface_type = b.iface_type
                    /\ i.state = b.state
                    /\ i.mtu = b.mtu
                    /\ i.ports =
                        IF HoldsPorts(b)
                        THEN {port \in b.ports :
                                ResolvesToKnown(p_before, port)}
                        ELSE b.ports
        /\ Cardinality(p_ifaces) = Cardinality(p_before)

\* A pass over a kernel and a user-level bridge: the kernel bridge lost a
\* port of type Unknown and a port no interface has and kept a port of a
\* known type; the user-level bridge lost a port too.
C29_Witness ==
    /\ PortsCleaned
    /\ \E b \in p_before, i \in p_ifaces :
            /\ b.iface_type = "LinuxBridge"
            /\ i.iface_type = "LinuxBridge"
            /\ b.ports = {"eth0", "eth1", "ghost"}
            /\ i.ports = {"eth0"}
            /\ \E u \in p_before : u.name = "eth1"
    /\ \E b \in p_before, i \in p_ifaces :
            /\ b.iface_type = "OvsBridge"
            /\ i.iface_type = "OvsBridge"
            /\ i.ports # b.ports

-----------------------------------------------------------------------------
(* MergedDnsState::verify, src/src/lib/state/query_apply/dns.rs *)

\* DnsClientState: each list is an Option, None when unset.
DnsConfig(server, search, options) ==
    [server |-> server, search |-> search, options |-> options]

\* MergedDnsState: is_changed() and the desired lists.
MergedDns(changed, servers, searches, options) ==
    [changed |-> changed, servers |-> servers, searches |-> searches,
     options |-> options]

\* DnsState::sanitize, line 14, on a current state that is in sanitized
\* form already, as every input is.
dns_sanitize(current) == current

DnsOk == [kind |-> "Ok", msg |-> << >>]
DnsError(msg) == [kind |-> "VerificationError", msg |-> msg]

\* Lines 66 and 75, sort_unstable on a Vec<String>, as an insertion sort.
RECURSIVE insert_sorted(_, _)
insert_sorted(x, sorted) ==
    IF sorted = << >> THEN <<x>>
    ELSE IF str_lt(Head(sorted), x)
    THEN <<Head(sorted)>> \o insert_sorted(x, Tail(sorted))
    ELSE <<x>> \o sorted

\* sort_unstable left out.
sort_skipped(seq) == seq

RECURSIVE sort_unstable(_)
sort_unstable(seq) ==
    IF seq = << >> THEN << >>
    ELSE insert_sorted(Head(seq), sort_unstable(Tail(seq)))

\* and_then(...).cloned().unwrap_or_default() of lines 16-27 and 68-73.
unwrap_or_default(list) == IF list = None THEN << >> ELSE list[1]

\* MergedDnsState::verify, lines 6-90.
dns_verify(self, current) ==
    IF ~self.changed THEN DnsOk
    ELSE IF dns_sanitize(current).config = None
    THEN DnsError(<<"Current DNS config is empty">>)
    ELSE
        LET cur_conf == dns_sanitize(current).config[1]
            cur_srvs == unwrap_or_default(cur_conf.server)
            cur_schs == unwrap_or_default(cur_conf.search)
            des_opts == sort_unstable(self.options)
            cur_opts == sort_unstable(unwrap_or_default(cur_conf.options))
        IN  IF /\ cur_srvs # self.servers
               /\ ~(cur_conf.server = None /\ self.servers = << >>)
            THEN DnsError(<<"desire name servers", self.servers, cur_srvs>>)
            ELSE IF /\ cur_schs # self.searches
                    /\ ~(cur_conf.search = None /\ self.searches = << >>)
            THEN DnsError(<<"desire searches", self.searches, cur_schs>>)
            ELSE IF des_opts # cur_opts
            THEN DnsError(<<"desire options", des_opts, cur_opts>>)
            ELSE DnsOk

\* The lists the inputs are made of.
DnsServerLists ==
    {<< >>, <<"1.1.1.1">>, <<"1.1.1.1", "8.8.8.8">>,
     <<"8.8.8.8", "1.1.1.1">>}
DnsSearchLists == {<< >>, <<"example.com">>}
DnsOptionLists ==
    {<< >>, <<"rotate">>, <<"edns0", "rotate">>, <<"rotate", "edns0">>,
     <<"rotate", "rotate">>}

\* An Option of one of the lists.
OptionOf(lists) == {None} \cup {Some(l) : l \in lists}

DnsMergedStates ==
    {MergedDns(c, srv, sch, opt) :
        c \in BOOLEAN, srv \in DnsServerLists, sch \in DnsSearchLists,
        opt \in DnsOptionLists}
DnsCurrentStates ==
    {[config |-> None]}
    \cup {[config |-> Some(DnsConfig(srv, sch, opt))] :
            srv \in OptionOf(DnsServerLists),
            sch \in OptionOf(DnsSearchLists),
            opt \in OptionOf(DnsOptionLists)}

InitDns ==
    /\ saved = {}
    /\ NoCall
    /\ Idle
    /\ NoVerifyCall
    /\ NoRevertCall
    /\ NoDiffCall
    /\ NoMonitorCall
    /\ NoApplyCall
    /\ NoPortsCall
    /\ n_merged \in DnsMergedStates
    /\ n_current \in DnsCurrentStates
    /\ n_result = DnsOk
    /\ n_calls = 0

\* One call of MergedDnsState::verify, which works on a clone of current.
DnsVerify ==
    /\ n_calls = 0
    /\ n_result' = dns_verify(n_merged, n_current)
    /\ n_calls' = n_calls + 1
    /\ UNCHANGED <<n_merged, n_current>>
    /\ UNCHANGED <<evars, qvars, vvars, rvars, dvars, mvars, avars, pvars>>

NextDns == DnsVerify

SpecDns == InitDns /\ [][NextDns]_vars

-----------------------------------------------------------------------------
(* C30: what MergedDnsState::verify accepts *)

DnsVerified == n_calls > 0

\* The current list equals the desired one, entry by entry; an unset
\* current list equals the empty desired list.
SameList(current_list, desired_list) ==
    \/ current_list = <<desired_list>>
    \/ current_list = << >> /\ desired_list = << >>

\* How often an entry is in a list.
Times(x, list) == Cardinality({k \in 1..Len(list) : list[k] = x})

\* The current options, none when unset, are the desired ones in some order.
SameOptions(current_list, desired_list) ==
    LET cur_list == IF current_list = << >> THEN << >> ELSE current_list[1]
    IN  /\ Len(cur_list) = Len(desired_list)
        /\ \A k \in 1..Len(desired_list) :
                Times(desired_list[k], cur_list)
                    = Times(desired_list[k], desired_list)

\* The current state holds the desired DNS configuration.
DnsAsDesired ==
    /\ n_current.config # << >>
    /\ SameList(n_current.config[1].server, n_merged.servers)
    /\ SameList(n_current.config[1].search, n_merged.searches)
    /\ SameOptions(n_current.config[1].options, n_merged.options)

\* C30: MergedDnsState::verify returns Ok for any current DNS state when
\* the merged DNS state is unchanged; when it is changed it returns Ok iff
\* the current state has a DNS config whose name servers and search domains
\* equal the desired ones in the same order, an unset current list counting
\* as equal to an empty desired list, and whose options equal the desired
\* options regardless of order; otherwise it returns a VerificationError.
C30_DnsVerify ==
    DnsVerified =>
        /\ ~n_merged.changed => n_result.kind = "Ok"
        /\ n_merged.changed =>
                /\ n_result.kind = "Ok" <=> DnsAsDesired
                /\ n_result.kind # "Ok"
                    => n_result.kind = "VerificationError"

\* A changed merged DNS state verified against a current state with the two
\* desired name servers, an unset search list where none is desired, and
\* the two desired options in the other order: Ok.
C30_Witness ==
    /\ DnsVerified
    /\ n_merged.changed
    /\ n_result.kind = "Ok"
    /\ Len(n_merged.servers) = 2
    /\ n_current.config[1].search = << >>
    /\ Len(n_merged.options) = 2
    /\ n_current.config[1].options # <<n_merged.options>>

=============================================================================
